---- MODULE Spec2Model ----
(***************************************************************************)
(* The save-file parser of the ONI agents repository: OniSaveParser and    *)
(* the modules extracted from it (BinaryReader, SaveHeaderReader,          *)
(* CompressedBlocksScanner, KSAVGroupCounter, DuplicantDecoder) and the    *)
(* two SaveFileDataExtractor classes that project its output.              *)
(*                                                                         *)
(* Byte strings (Python bytes) are sequences over 0..255 and Python str    *)
(* values are the sequences of their ASCII codes, so that a slice, a find, *)
(* a decode or a format is computed on the bytes as the code computes it.  *)
(* Python offsets are 0-based: the byte at offset o of b is b[o + 1].      *)
(***************************************************************************)
EXTENDS Integers, Sequences, FiniteSets, TLC

VARIABLES
    file,            \* the file at the path handed to the parser: [exists, data]
    save_body,       \* the decompressed body a caller holds for the decoders
    last_game_info,  \* OniSaveParser.last_game_info of the parser instance
    log,             \* the WARNING and ERROR records the last call logged
    call,            \* the last call that returned, with the argument it was given
    result           \* what that call returned

vars == << file, save_body, last_game_info, log, call, result >>

-----------------------------------------------------------------------------
(* Text constants of the code, as bytes.                                   *)
Txt == [
    \* "KSAV"
    KSAV |-> <<75, 83, 65, 86>>,
    \* "Minion"
    Minion |-> <<77, 105, 110, 105, 111, 110>>,
    \* "colony.sav"
    path |-> <<99, 111, 108, 111, 110, 121, 46, 115, 97, 118>>,
    \* "saveMajorVersion"
    saveMajorVersion |-> <<115, 97, 118, 101, 77, 97, 106, 111, 114, 86, 101, 114, 115, 105, 111, 110>>,
    \* "saveMinorVersion"
    saveMinorVersion |-> <<115, 97, 118, 101, 77, 105, 110, 111, 114, 86, 101, 114, 115, 105, 111, 110>>,
    \* "numberOfCycles"
    numberOfCycles |-> <<110, 117, 109, 98, 101, 114, 79, 102, 67, 121, 99, 108, 101, 115>>,
    \* "numberOfDuplicants"
    numberOfDuplicants |-> <<110, 117, 109, 98, 101, 114, 79, 102, 68, 117, 112, 108, 105, 99, 97, 110, 116, 115>>,
    \* "cycles"
    cycles |-> <<99, 121, 99, 108, 101, 115>>,
    \* "duplicants"
    duplicants |-> <<100, 117, 112, 108, 105, 99, 97, 110, 116, 115>>,
    \* "clusterId"
    clusterId |-> <<99, 108, 117, 115, 116, 101, 114, 73, 100>>,
    \* "ClusterId"
    ClusterId |-> <<67, 108, 117, 115, 116, 101, 114, 73, 100>>,
    \* "baseName"
    baseName |-> <<98, 97, 115, 101, 78, 97, 109, 101>>,
    \* "buildVersion"
    buildVersion |-> <<98, 117, 105, 108, 100, 86, 101, 114, 115, 105, 111, 110>>,
    \* "headerVersion"
    headerVersion |-> <<104, 101, 97, 100, 101, 114, 86, 101, 114, 115, 105, 111, 110>>,
    \* "isCompressed"
    isCompressed |-> <<105, 115, 67, 111, 109, 112, 114, 101, 115, 115, 101, 100>>,
    \* "WidthInCells"
    WidthInCells |-> <<87, 105, 100, 116, 104, 73, 110, 67, 101, 108, 108, 115>>,
    \* "widthInCells"
    widthInCells |-> <<119, 105, 100, 116, 104, 73, 110, 67, 101, 108, 108, 115>>,
    \* "HeightInCells"
    HeightInCells |-> <<72, 101, 105, 103, 104, 116, 73, 110, 67, 101, 108, 108, 115>>,
    \* "heightInCells"
    heightInCells |-> <<104, 101, 105, 103, 104, 116, 73, 110, 67, 101, 108, 108, 115>>,
    \* "version"
    version |-> <<118, 101, 114, 115, 105, 111, 110>>,
    \* "null"
    null |-> <<110, 117, 108, 108>>,
    \* "true"
    true |-> <<116, 114, 117, 101>>,
    \* "false"
    false |-> <<102, 97, 108, 115, 101>>,
    \* "None"
    None |-> <<78, 111, 110, 101>>,
    \* "True"
    True |-> <<84, 114, 117, 101>>,
    \* "False"
    False |-> <<70, 97, 108, 115, 101>>,
    \* "[]"
    emptylist |-> <<91, 93>>,
    \* "Save file not found: "
    m_not_found |-> <<83, 97, 118, 101, 32, 102, 105, 108, 101, 32, 110, 111, 116, 32, 102, 111, 117, 110, 100, 58, 32>>,
    \* "Expected "
    m_expected |-> <<69, 120, 112, 101, 99, 116, 101, 100, 32>>,
    \* " bytes, got "
    m_bytes_got |-> <<32, 98, 121, 116, 101, 115, 44, 32, 103, 111, 116, 32>>,
    \* "Unsupported major version "
    m_unsupported_major |-> <<85, 110, 115, 117, 112, 112, 111, 114, 116, 101, 100, 32, 109, 97, 106, 111, 114, 32, 118, 101, 114, 115, 105, 111, 110, 32>>,
    \* ". Expected "
    m_expected_major |-> <<46, 32, 69, 120, 112, 101, 99, 116, 101, 100, 32>>,
    \* "Minor version "
    m_minor_version |-> <<77, 105, 110, 111, 114, 32, 118, 101, 114, 115, 105, 111, 110, 32>>,
    \* " may not be fully supported. Supported range: "
    m_may_not |-> <<32, 109, 97, 121, 32, 110, 111, 116, 32, 98, 101, 32, 102, 117, 108, 108, 121, 32, 115, 117, 112, 112, 111, 114, 116, 101, 100, 46, 32, 83, 117, 112, 112, 111, 114, 116, 101, 100, 32, 114, 97, 110, 103, 101, 58, 32>>,
    \* "Header parsing error: "
    m_header_parsing_error |-> <<72, 101, 97, 100, 101, 114, 32, 112, 97, 114, 115, 105, 110, 103, 32, 101, 114, 114, 111, 114, 58, 32>>,
    \* "Header parsing failed: "
    m_header_parsing_failed |-> <<72, 101, 97, 100, 101, 114, 32, 112, 97, 114, 115, 105, 110, 103, 32, 102, 97, 105, 108, 101, 100, 58, 32>>,
    \* "Error in save data parsing: "
    m_error_in_save_data |-> <<69, 114, 114, 111, 114, 32, 105, 110, 32, 115, 97, 118, 101, 32, 100, 97, 116, 97, 32, 112, 97, 114, 115, 105, 110, 103, 58, 32>>,
    \* "Error parsing save file: "
    m_error_parsing |-> <<69, 114, 114, 111, 114, 32, 112, 97, 114, 115, 105, 110, 103, 32, 115, 97, 118, 101, 32, 102, 105, 108, 101, 58, 32>>,
    \* "Type templates parsing minimal: names not detected"
    m_templates_minimal |-> <<84, 121, 112, 101, 32, 116, 101, 109, 112, 108, 97, 116, 101, 115, 32, 112, 97, 114, 115, 105, 110, 103, 32, 109, 105, 110, 105, 109, 97, 108, 58, 32, 110, 97, 109, 101, 115, 32, 110, 111, 116, 32, 100, 101, 116, 101, 99, 116, 101, 100>>,
    \* "World data preserved as binary (not parsed)"
    m_world_preserved |-> <<87, 111, 114, 108, 100, 32, 100, 97, 116, 97, 32, 112, 114, 101, 115, 101, 114, 118, 101, 100, 32, 97, 115, 32, 98, 105, 110, 97, 114, 121, 32, 40, 110, 111, 116, 32, 112, 97, 114, 115, 101, 100, 41>>,
    \* "World parsing error: "
    m_world_parsing_error |-> <<87, 111, 114, 108, 100, 32, 112, 97, 114, 115, 105, 110, 103, 32, 101, 114, 114, 111, 114, 58, 32>>,
    \* "Settings parsing not yet implemented"
    m_settings |-> <<83, 101, 116, 116, 105, 110, 103, 115, 32, 112, 97, 114, 115, 105, 110, 103, 32, 110, 111, 116, 32, 121, 101, 116, 32, 105, 109, 112, 108, 101, 109, 101, 110, 116, 101, 100>>,
    \* "Simulation data preserved as binary"
    m_sim |-> <<83, 105, 109, 117, 108, 97, 116, 105, 111, 110, 32, 100, 97, 116, 97, 32, 112, 114, 101, 115, 101, 114, 118, 101, 100, 32, 97, 115, 32, 98, 105, 110, 97, 114, 121>>,
    \* "Game objects parsing not yet implemented"
    m_game_objects |-> <<71, 97, 109, 101, 32, 111, 98, 106, 101, 99, 116, 115, 32, 112, 97, 114, 115, 105, 110, 103, 32, 110, 111, 116, 32, 121, 101, 116, 32, 105, 109, 112, 108, 101, 109, 101, 110, 116, 101, 100>>,
    \* "Game data parsing not yet implemented"
    m_game_data |-> <<71, 97, 109, 101, 32, 100, 97, 116, 97, 32, 112, 97, 114, 115, 105, 110, 103, 32, 110, 111, 116, 32, 121, 101, 116, 32, 105, 109, 112, 108, 101, 109, 101, 110, 116, 101, 100>>,
    \* "Failed to parse save file: "
    m_failed_to_parse |-> <<70, 97, 105, 108, 101, 100, 32, 116, 111, 32, 112, 97, 114, 115, 101, 32, 115, 97, 118, 101, 32, 102, 105, 108, 101, 58, 32>>,
    \* "'utf-8' codec can't decode byte 0xff in position 0: invalid start byte"
    e_unicode |-> <<39, 117, 116, 102, 45, 56, 39, 32, 99, 111, 100, 101, 99, 32, 99, 97, 110, 39, 116, 32, 100, 101, 99, 111, 100, 101, 32, 98, 121, 116, 101, 32, 48, 120, 102, 102, 32, 105, 110, 32, 112, 111, 115, 105, 116, 105, 111, 110, 32, 48, 58, 32, 105, 110, 118, 97, 108, 105, 100, 32, 115, 116, 97, 114, 116, 32, 98, 121, 116, 101>>,
    \* "Expecting value: line 1 column 1 (char 0)"
    e_json |-> <<69, 120, 112, 101, 99, 116, 105, 110, 103, 32, 118, 97, 108, 117, 101, 58, 32, 108, 105, 110, 101, 32, 49, 32, 99, 111, 108, 117, 109, 110, 32, 49, 32, 40, 99, 104, 97, 114, 32, 48, 41>>,
    \* "'list' object has no attribute 'get'"
    e_attr |-> <<39, 108, 105, 115, 116, 39, 32, 111, 98, 106, 101, 99, 116, 32, 104, 97, 115, 32, 110, 111, 32, 97, 116, 116, 114, 105, 98, 117, 116, 101, 32, 39, 103, 101, 116, 39>>,
    \* "'<=' not supported between instances of 'int' and 'str'"
    e_type |-> <<39, 60, 61, 39, 32, 110, 111, 116, 32, 115, 117, 112, 112, 111, 114, 116, 101, 100, 32, 98, 101, 116, 119, 101, 101, 110, 32, 105, 110, 115, 116, 97, 110, 99, 101, 115, 32, 111, 102, 32, 39, 105, 110, 116, 39, 32, 97, 110, 100, 32, 39, 115, 116, 114, 39>>,
    \* "invalid literal for int() with base 10"
    e_int |-> <<105, 110, 118, 97, 108, 105, 100, 32, 108, 105, 116, 101, 114, 97, 108, 32, 102, 111, 114, 32, 105, 110, 116, 40, 41, 32, 119, 105, 116, 104, 32, 98, 97, 115, 101, 32, 49, 48>>,
    \* "MinionIdentity"
    MinionIdentity |-> <<77, 105, 110, 105, 111, 110, 73, 100, 101, 110, 116, 105, 116, 121>>,
    \* "MinionResume"
    MinionResume |-> <<77, 105, 110, 105, 111, 110, 82, 101, 115, 117, 109, 101>>,
    \* "MinionModifiers"
    MinionModifiers |-> <<77, 105, 110, 105, 111, 110, 77, 111, 100, 105, 102, 105, 101, 114, 115>>,
    \* "Klei.AI.Traits"
    KleiAITraits |-> <<75, 108, 101, 105, 46, 65, 73, 46, 84, 114, 97, 105, 116, 115>>,
    \* "Klei.AI.Effects"
    KleiAIEffects |-> <<75, 108, 101, 105, 46, 65, 73, 46, 69, 102, 102, 101, 99, 116, 115>>,
    \* "c1"
    c1 |-> <<99, 49>>,
    \* "7"
    seven |-> <<55>>,
    \* "ab"
    ab |-> <<97, 98>>,
    \* "Traits"
    Traits |-> <<84, 114, 97, 105, 116, 115>>,
    \* "Effects"
    Effects |-> <<69, 102, 102, 101, 99, 116, 115>>,
    \* "Modifiers"
    Modifiers |-> <<77, 111, 100, 105, 102, 105, 101, 114, 115>>,
    \* "Accessorizer"
    Accessorizer |-> <<65, 99, 99, 101, 115, 115, 111, 114, 105, 122, 101, 114>>,
    \* "WearableAccessorizer"
    WearableAccessorizer |-> <<87, 101, 97, 114, 97, 98, 108, 101, 65, 99, 99, 101, 115, 115, 111, 114, 105, 122, 101, 114>>,
    \* "currentRole"
    currentRole |-> <<99, 117, 114, 114, 101, 110, 116, 82, 111, 108, 101>>,
    \* "AptitudeBySkillGroup"
    AptitudeBySkillGroup |-> <<65, 112, 116, 105, 116, 117, 100, 101, 66, 121, 83, 107, 105, 108, 108, 71, 114, 111, 117, 112>>,
    \* "MasteryByRoleID"
    MasteryByRoleID |-> <<77, 97, 115, 116, 101, 114, 121, 66, 121, 82, 111, 108, 101, 73, 68>>,
    \* "hat_role_"
    hat_role_ |-> <<104, 97, 116, 95, 114, 111, 108, 101, 95>>,
    \* "NoRole"
    NoRole |-> <<78, 111, 82, 111, 108, 101>>,
    \* "DiversLung"
    DiversLung |-> <<68, 105, 118, 101, 114, 115, 76, 117, 110, 103>>,
    \* "DeeperDiversLungs"
    DeeperDiversLungs |-> <<68, 101, 101, 112, 101, 114, 68, 105, 118, 101, 114, 115, 76, 117, 110, 103, 115>>,
    \* " T"
    tier |-> <<32, 84>>,
    \* "name"
    name |-> <<110, 97, 109, 101>>,
    \* "nameStringKey"
    nameStringKey |-> <<110, 97, 109, 101, 83, 116, 114, 105, 110, 103, 75, 101, 121>>,
    \* "gender"
    gender |-> <<103, 101, 110, 100, 101, 114>>,
    \* "genderStringKey"
    genderStringKey |-> <<103, 101, 110, 100, 101, 114, 83, 116, 114, 105, 110, 103, 75, 101, 121>>,
    \* "arrivalTime"
    arrivalTime |-> <<97, 114, 114, 105, 118, 97, 108, 84, 105, 109, 101>>,
    \* "MALE"
    MALE |-> <<77, 65, 76, 69>>,
    \* "FEMALE"
    FEMALE |-> <<70, 69, 77, 65, 76, 69>>,
    \* "NB"
    NB |-> <<78, 66>>,
    \* "Miner"
    Miner |-> <<77, 105, 110, 101, 114>>,
    \* "Tile"
    Tile |-> <<84, 105, 108, 101>>,
    \* "hat_role_building3"
    hat_building3 |-> <<104, 97, 116, 95, 114, 111, 108, 101, 95, 98, 117, 105, 108, 100, 105, 110, 103, 51>>,
    \* "hat_role_9"
    hat_9 |-> <<104, 97, 116, 95, 114, 111, 108, 101, 95, 57>>,
    \* "Foodie"
    Foodie |-> <<70, 111, 111, 100, 105, 101>>,
    \* "Anemic"
    Anemic |-> <<65, 110, 101, 109, 105, 99>>,
    \* "Zzz"
    Zzz |-> <<90, 122, 122>>,
    \* "Sleep"
    Sleep |-> <<83, 108, 101, 101, 112>>,
    \* "WellFed"
    WellFed |-> <<87, 101, 108, 108, 70, 101, 100>>,
    \* "Mining"
    Mining |-> <<77, 105, 110, 105, 110, 103>>,
    \* "mining"
    mining |-> <<109, 105, 110, 105, 110, 103>>,
    \* "Operating"
    Operating |-> <<79, 112, 101, 114, 97, 116, 105, 110, 103>>,
    \* "Research"
    Research |-> <<82, 101, 115, 101, 97, 114, 99, 104>>,
    \* "Art"
    Art |-> <<65, 114, 116>>,
    \* "Cooking"
    Cooking |-> <<67, 111, 111, 107, 105, 110, 103>>,
    \* "Builder"
    Builder |-> <<66, 117, 105, 108, 100, 101, 114>>,
    \* "other"
    other |-> <<111, 116, 104, 101, 114>>,
    \* "Mining9 Cooking2"
    Mining9_Cooking2 |-> <<77, 105, 110, 105, 110, 103, 57, 32, 67, 111, 111, 107, 105, 110, 103, 50>>,
    \* "Building3"
    Building3 |-> <<66, 117, 105, 108, 100, 105, 110, 103, 51>>,
    \* "Building"
    Building |-> <<66, 117, 105, 108, 100, 105, 110, 103>>,
    \* "negative seek value "
    m_negative_seek |-> <<110, 101, 103, 97, 116, 105, 118, 101, 32, 115, 101, 101, 107, 32, 118, 97, 108, 117, 101, 32>>,
    \* "Invalid string length: "
    m_invalid_string_length |-> <<73, 110, 118, 97, 108, 105, 100, 32, 115, 116, 114, 105, 110, 103, 32, 108, 101, 110, 103, 116, 104, 58, 32>>,
    \* "Health"
    Health |-> <<72, 101, 97, 108, 116, 104>>,
    \* "Stress"
    Stress |-> <<83, 116, 114, 101, 115, 115>>,
    \* "Decor"
    Decor |-> <<68, 101, 99, 111, 114>>,
    \* "Ada"
    Ada |-> <<65, 100, 97>>,
    \* "Failed to decompress zlib data: "
    m_zlib_failed |-> <<70, 97, 105, 108, 101, 100, 32, 116, 111, 32, 100, 101, 99, 111, 109, 112, 114, 101, 115, 115, 32, 122, 108, 105, 98, 32, 100, 97, 116, 97, 58, 32>>,
    \* "Invalid array count: "
    m_invalid_array_count |-> <<73, 110, 118, 97, 108, 105, 100, 32, 97, 114, 114, 97, 121, 32, 99, 111, 117, 110, 116, 58, 32>>
  ]
-----------------------------------------------------------------------------
(* Bytes, slices and the struct formats the code unpacks.                  *)

Min(a, b) == IF a < b THEN a ELSE b
Max(a, b) == IF a > b THEN a ELSE b

\* b[lo:hi], a Python slice with 0 <= lo: clipped to the bytes there are.
Slice(b, lo, hi) == SubSeq(b, lo + 1, Min(hi, Len(b)))

\* struct.unpack_from('<i', b, o)[0]: two's complement, little-endian.
I32(b, o) ==
    b[o + 1] + 256 * b[o + 2] + 65536 * b[o + 3]
      + 16777216 * (IF b[o + 4] >= 128 THEN b[o + 4] - 256 ELSE b[o + 4])

\* struct.unpack_from('<I', b, o)[0].  The files of this model keep the top
\* byte of every unsigned word below 128, so the value fits TLC's integers.
U32(b, o) == b[o + 1] + 256 * b[o + 2] + 65536 * b[o + 3] + 16777216 * b[o + 4]

\* struct.pack('<i', n): what the game writes for a 32-bit word.
LE32(n) ==
    << n % 256, (n \div 256) % 256, (n \div 65536) % 256, (n \div 16777216) % 256 >>

\* hay.find(needle, start): the lowest offset >= start at which needle occurs, or -1.
Find(hay, needle, start) ==
    LET at == { i \in start .. (Len(hay) - Len(needle)) :
                    SubSeq(hay, i + 1, i + Len(needle)) = needle }
    IN  IF at = {} THEN -1 ELSE CHOOSE i \in at : \A j \in at : i <= j

\* needle in hay
Contains(hay, needle) == Find(hay, needle, 0) # -1

\* b.decode('utf-8') succeeds.  Text in this model is ASCII; the one
\* non-UTF-8 byte the files carry is 0xFF, which no UTF-8 sequence contains.
IsUtf8(b) == \A i \in 1 .. Len(b) : b[i] < 128

\* str(n) for an int
RECURSIVE Digits(_)
Digits(n) == IF n < 10 THEN << 48 + n >> ELSE Digits(n \div 10) \o << 48 + (n % 10) >>
FormatInt(n) == IF n < 0 THEN << 45 >> \o Digits(-n) ELSE Digits(n)

-----------------------------------------------------------------------------
(* Python values as json.loads returns them: int, str, None, bool and the  *)
(* empty list.  One record shape, so that any two can be compared.        *)

PyInt(n)  == [t |-> "int",  n |-> n, s |-> << >>]
PyStr(s)  == [t |-> "str",  n |-> 0, s |-> s]
PyNone    == [t |-> "none", n |-> 0, s |-> << >>]
PyBool(b) == [t |-> "bool", n |-> IF b THEN 1 ELSE 0, s |-> << >>]
PyList    == [t |-> "list", n |-> 0, s |-> << >>]

\* bool(v)
Truthy(v) ==
    CASE v.t = "int"  -> v.n # 0
      [] v.t = "bool" -> v.n # 0
      [] v.t = "str"  -> v.s # << >>
      [] OTHER        -> FALSE

\* a or b
PyOr(a, b) == IF Truthy(a) THEN a ELSE b

\* v is a number (bool is a subclass of int)
IsNumber(v) == v.t \in {"int", "bool"}

\* str(v), as an f-string formats it
Format(v) ==
    CASE v.t = "int"  -> FormatInt(v.n)
      [] v.t = "bool" -> IF v.n = 1 THEN Txt.True ELSE Txt.False
      [] v.t = "str"  -> v.s
      [] v.t = "none" -> Txt.None
      [] OTHER        -> Txt.emptylist

\* d.get(k, default) on a dict (a function from keys to values)
Get(d, k, default) == IF k \in DOMAIN d THEN d[k] ELSE default

\* d.update(e): e's entries win
Update(d, e) == e @@ d

\* text is made of decimal digits only (what int(str) accepts here)
AllDigits(s) == s # << >> /\ \A i \in 1 .. Len(s) : s[i] >= 48 /\ s[i] <= 57

RECURSIVE DigitsValue(_, _)
DigitsValue(s, acc) ==
    IF s = << >> THEN acc ELSE DigitsValue(Tail(s), acc * 10 + (Head(s) - 48))

\* int(v): [ok, n]; a str that is no decimal literal raises ValueError, None
\* and a list raise TypeError.
ToInt(v) ==
    CASE IsNumber(v) -> [ok |-> TRUE, n |-> v.n]
      [] v.t = "str" /\ AllDigits(v.s) -> [ok |-> TRUE, n |-> DigitsValue(v.s, 0)]
      [] v.t = "str" /\ Len(v.s) >= 2 /\ v.s[1] = 45 /\ AllDigits(Tail(v.s)) ->
            [ok |-> TRUE, n |-> 0 - DigitsValue(Tail(v.s), 0)]
      [] OTHER -> [ok |-> FALSE, n |-> 0]

-----------------------------------------------------------------------------
(* json.loads on the header text.  The header JSON of a save is one flat   *)
(* object; the texts of this model are written without white space and     *)
(* without escapes, and hold strings, integers, null, true, false and [].  *)

IsDigit(c) == c >= 48 /\ c <= 57

RECURSIVE ScanDigits(_, _)
\* the first offset >= i of t that holds no digit
ScanDigits(t, i) == IF i < Len(t) /\ IsDigit(t[i + 1]) THEN ScanDigits(t, i + 1) ELSE i

StartsWithAt(t, i, w) == i + Len(w) <= Len(t) /\ SubSeq(t, i + 1, i + Len(w)) = w

JsonFail == [ok |-> FALSE, v |-> PyNone, next |-> 0]

\* one JSON value at offset i of t: [ok, v, next]
JsonValue(t, i) ==
    IF i >= Len(t) THEN JsonFail
    ELSE IF t[i + 1] = 34 THEN
        LET j == Find(t, << 34 >>, i + 1)
        IN  IF j = -1 \/ Contains(Slice(t, i + 1, j), << 92 >>) THEN JsonFail
            ELSE [ok |-> TRUE, v |-> PyStr(Slice(t, i + 1, j)), next |-> j + 1]
    ELSE IF IsDigit(t[i + 1]) THEN
        LET j == ScanDigits(t, i)
        IN  [ok |-> TRUE, v |-> PyInt(DigitsValue(Slice(t, i, j), 0)), next |-> j]
    ELSE IF t[i + 1] = 45 THEN
        LET j == ScanDigits(t, i + 1)
        IN  IF j = i + 1 THEN JsonFail
            ELSE [ok |-> TRUE, v |-> PyInt(0 - DigitsValue(Slice(t, i + 1, j), 0)),
                  next |-> j]
    ELSE IF StartsWithAt(t, i, Txt.null) THEN
        [ok |-> TRUE, v |-> PyNone, next |-> i + 4]
    ELSE IF StartsWithAt(t, i, Txt.true) THEN
        [ok |-> TRUE, v |-> PyBool(TRUE), next |-> i + 4]
    ELSE IF StartsWithAt(t, i, Txt.false) THEN
        [ok |-> TRUE, v |-> PyBool(FALSE), next |-> i + 5]
    ELSE IF StartsWithAt(t, i, Txt.emptylist) THEN
        [ok |-> TRUE, v |-> PyList, next |-> i + 2]
    ELSE JsonFail

RECURSIVE JsonPairs(_, _, _)
\* "key":value pairs from offset i up to the closing brace: [ok, d, next]
JsonPairs(t, i, d) ==
    LET k == JsonValue(t, i)
        bad == [ok |-> FALSE, d |-> << >>, next |-> 0]
    IN  IF ~k.ok \/ k.v.t # "str" THEN bad
        ELSE IF ~(k.next < Len(t) /\ t[k.next + 1] = 58) THEN bad
        ELSE LET v == JsonValue(t, k.next + 1)
                 d2 == (k.v.s :> v.v) @@ d
             IN  IF ~v.ok THEN bad
                 ELSE IF v.next < Len(t) /\ t[v.next + 1] = 44
                      THEN JsonPairs(t, v.next + 1, d2)
                 ELSE IF v.next < Len(t) /\ t[v.next + 1] = 125
                      THEN [ok |-> TRUE, d |-> d2, next |-> v.next + 1]
                 ELSE bad

\* json.loads(t): [ok, isdict, d]; ok = FALSE is json.JSONDecodeError.
json_loads(t) ==
    IF Len(t) >= 2 /\ t[1] = 123 /\ t[2] = 125 THEN
        [ok |-> Len(t) = 2, isdict |-> TRUE, d |-> << >>]
    ELSE IF Len(t) >= 1 /\ t[1] = 123 THEN
        LET r == JsonPairs(t, 1, << >>)
        IN  [ok |-> r.ok /\ r.next = Len(t), isdict |-> TRUE, d |-> r.d]
    ELSE
        LET v == JsonValue(t, 0)
        IN  [ok |-> v.ok /\ v.next = Len(t), isdict |-> FALSE, d |-> << >>]

\* The text the game writes for one value and for a flat object.
JsonText(v) ==
    CASE v.t = "int"  -> FormatInt(v.n)
      [] v.t = "str"  -> << 34 >> \o v.s \o << 34 >>
      [] v.t = "none" -> Txt.null
      [] v.t = "bool" -> IF v.n = 1 THEN Txt.true ELSE Txt.false
      [] OTHER        -> Txt.emptylist

RECURSIVE JsonMembers(_)
JsonMembers(pairs) ==
    IF pairs = << >> THEN << >>
    ELSE << 34 >> \o Head(pairs)[1] \o << 34, 58 >> \o JsonText(Head(pairs)[2])
           \o (IF Len(pairs) > 1 THEN << 44 >> ELSE << >>) \o JsonMembers(Tail(pairs))

JsonDump(pairs) == << 123 >> \o JsonMembers(pairs) \o << 125 >>

-----------------------------------------------------------------------------
(* BinaryReader: a BytesIO stream (data, pos) and the tracked position.    *)

BinaryReader(data) == [data |-> data, pos |-> 0, position |-> 0]

\* EOFError(f"Expected {count} bytes, got {len(data)}")
EofMessage(count, got) ==
    Txt.m_expected \o FormatInt(count) \o Txt.m_bytes_got \o FormatInt(got)

\* a reader that hands on what the stream gave without the length check
ReadBytesUnchecked(rd, count) ==
    [ok |-> TRUE,
     bytes |-> IF count < 0 THEN Slice(rd.data, rd.pos, Len(rd.data))
               ELSE Slice(rd.data, rd.pos, rd.pos + count),
     err |-> << >>,
     rd |-> [rd EXCEPT !.pos = Min(Len(rd.data), Max(rd.pos, rd.pos + count)),
                       !.position = rd.position + count]]

\* read_bytes(count): [ok, bytes, err, rd].  BytesIO.read returns what is left
\* when fewer than count bytes remain (all of it for a negative count) and
\* moves the stream; position moves on success only.
read_bytes(rd, count) ==
    LET got == IF count < 0 THEN Slice(rd.data, rd.pos, Len(rd.data))
               ELSE Slice(rd.data, rd.pos, rd.pos + count)
        rd1 == [rd EXCEPT !.pos = rd.pos + Len(got)]
    IN  IF Len(got) # count
        THEN [ok |-> FALSE, bytes |-> << >>, err |-> EofMessage(count, Len(got)), rd |-> rd1]
        ELSE [ok |-> TRUE, bytes |-> got, err |-> << >>,
              rd |-> [rd1 EXCEPT !.position = rd.position + count]]

\* read_uint32(): [ok, n, err, rd]
read_uint32(rd) ==
    LET r == read_bytes(rd, 4)
    IN  [ok |-> r.ok, n |-> IF r.ok THEN U32(r.bytes, 0) ELSE 0, err |-> r.err, rd |-> r.rd]

get_position(rd) == rd.pos

remaining_bytes(rd) == Len(rd.data) - rd.pos

\* seek(position): [ok, err, rd].  BytesIO.seek raises ValueError on a
\* negative position and takes every other one, past the end too.
seek(rd, position) ==
    IF position < 0
    THEN [ok |-> FALSE, err |-> Txt.m_negative_seek \o FormatInt(position), rd |-> rd]
    ELSE [ok |-> TRUE, err |-> << >>,
          rd |-> [rd EXCEPT !.pos = position, !.position = position]]

-----------------------------------------------------------------------------
(* zlib.  The game writes the body as one zlib stream; the streams of this *)
(* model are made of stored deflate blocks (BTYPE 00), which zlib inflates *)
(* by copying, so that inflating is computed on the bytes as zlib does it: *)
(* the two header bytes, each block's LEN and its complement, the Adler-32 *)
(* trailer.  Bytes after the trailer are ignored, as zlib.decompress does. *)

\* Adler-32 keeps a = 1 + the sum of the bytes and b = the sum of the values
\* a takes, both modulo 65521.  Over a run of bytes the pair << s, w >> is the
\* sum of the bytes and the sum of the bytes weighted by how many bytes
\* follow, the byte itself included; two adjoining runs join into one.
AdlerJoin(x, y, ylen) ==
    << (x[1] + y[1]) % 65521, (x[2] + ylen * x[1] + y[2]) % 65521 >>

RECURSIVE AdlerSums(_, _, _)
\* << s, w >> of data[lo .. hi], lo <= hi
AdlerSums(data, lo, hi) ==
    IF lo = hi THEN << data[lo], data[lo] >>
    ELSE AdlerJoin(AdlerSums(data, lo, (lo + hi) \div 2),
                   AdlerSums(data, (lo + hi) \div 2 + 1, hi),
                   hi - (lo + hi) \div 2)

\* the checksum as the four big-endian bytes of the trailer
Adler32(data) ==
    LET s == IF data = << >> THEN << 0, 0 >> ELSE AdlerSums(data, 1, Len(data))
        a == (1 + s[1]) % 65521
        b == (Len(data) + s[2]) % 65521
    IN  << b \div 256, b % 256, a \div 256, a % 256 >>

RECURSIVE InflateBlocks(_, _, _)
\* the stored blocks of stream b from offset o, out the bytes so far: [ok, out]
InflateBlocks(b, o, out) ==
    IF o + 5 > Len(b) THEN [ok |-> FALSE, out |-> << >>]
    ELSE LET final == b[o + 1] % 2 = 1
             btype == (b[o + 1] \div 2) % 4
             len == b[o + 2] + 256 * b[o + 3]
             nlen == b[o + 4] + 256 * b[o + 5]
             out2 == out \o Slice(b, o + 5, o + 5 + len)
             next == o + 5 + len
         IN  IF btype # 0 \/ len + nlen # 65535 \/ next > Len(b)
             THEN [ok |-> FALSE, out |-> << >>]
             ELSE IF ~final THEN InflateBlocks(b, next, out2)
             ELSE IF next + 4 > Len(b) \/ Slice(b, next, next + 4) # Adler32(out2)
             THEN [ok |-> FALSE, out |-> << >>]
             ELSE [ok |-> TRUE, out |-> out2]

\* zlib.decompress(b): [ok, out]; ok = FALSE is zlib.error
zlib_decompress(b) ==
    IF Len(b) < 2 \/ b[1] % 16 # 8 \/ b[1] \div 16 > 7
         \/ (256 * b[1] + b[2]) % 31 # 0 \/ (b[2] \div 32) % 2 = 1
    THEN [ok |-> FALSE, out |-> << >>]
    ELSE InflateBlocks(b, 2, << >>)

\* zlib.compress(data, 0): one stored block
zlib_compress(data) ==
    << 120, 1, 1, Len(data) % 256, Len(data) \div 256,
       255 - (Len(data) % 256), 255 - (Len(data) \div 256) >>
      \o data \o Adler32(data)

\* _parse_header_raw(data): the offset after the header JSON, 0 when the
\* header does not fit
_parse_header_raw(data) ==
    IF Len(data) < 12 THEN 0
    ELSE LET header_size == U32(data, 4)
             header_version == U32(data, 8)
             p == IF header_version >= 1 THEN 16 ELSE 12
         IN  IF p > Len(data) \/ p + header_size > Len(data) THEN 0
             ELSE p + header_size

ZlibSignatures == { << 120, 156 >>, << 120, 218 >>, << 120, 1 >> }

RECURSIVE FirstKsavBlock(_, _)
\* the first candidate offset, in ascending order, whose stream inflates to
\* bytes containing 'KSAV': [found, body]
FirstKsavBlock(data, candidates) ==
    IF candidates = {} THEN [found |-> FALSE, body |-> << >>]
    ELSE LET pos == CHOOSE p \in candidates : \A q \in candidates : p <= q
             z == zlib_decompress(Slice(data, pos, Len(data)))
         IN  IF z.ok /\ Contains(z.out, Txt.KSAV)
             THEN [found |-> TRUE, body |-> z.out]
             ELSE FirstKsavBlock(data, candidates \ {pos})

\* _decompress_body_block(data): [found, body]; found = FALSE is None
_decompress_body_block(data) ==
    LET start_after_header == _parse_header_raw(data)
        candidates == { pos \in start_after_header .. (Len(data) - 2) :
                            Slice(data, pos, pos + 2) \in ZlibSignatures }
    IN  FirstKsavBlock(data, candidates)

-----------------------------------------------------------------------------
(* The data model (data_structures.py).                                    *)

SaveGameHeader ==
    [game_info |-> << >>, cluster_id |-> PyStr(<< >>), num_cycles |-> PyInt(0),
     num_duplicants |-> PyInt(0), has_dlc |-> FALSE, dlc_ids |-> << >>, has_mods |-> FALSE]

SaveGameVersion == [major |-> PyInt(0), minor |-> PyInt(0)]

SaveGameWorld == [width_in_cells |-> 0, height_in_cells |-> 0]

SaveGame ==
    [header |-> SaveGameHeader, templates |-> << >>, world |-> SaveGameWorld,
     sim_data |-> << >>, version |-> SaveGameVersion]

\* ParseResult.save_game = None
NoSaveGame == [none |-> TRUE]

ParseResult ==
    [success |-> FALSE, save_game |-> NoSaveGame, error_message |-> << >>,
     warnings |-> << >>, entities |-> << >>]

\* str(version): f"{major}.{minor}"
VersionText(version) == Format(version.major) \o << 46 >> \o Format(version.minor)

LogRecord(level, msg) == [level |-> level, msg |-> msg]

-----------------------------------------------------------------------------
(* OniSaveParser: header, version and the placeholder sections.            *)

SUPPORTED_MAJOR_VERSION == 7
MIN_MINOR_VERSION == 11
MAX_MINOR_VERSION == 36

\* what _parse_header does with an exception e: the warning, the error
\* record, and e raised again
HeaderFailure(err, st, lgi) ==
    [ok |-> FALSE, err |-> err, header |-> SaveGameHeader, rd |-> st.rd,
     warnings |-> << Txt.m_header_parsing_error \o err >>,
     log |-> << LogRecord("ERROR", Txt.m_header_parsing_failed \o err) >>,
     lgi |-> lgi]

RECURSIVE ParseHeaderFrom(_, _, _)
\* _parse_header from its step-th read on; st holds the reader and the locals
\* read so far, lgi is the parser's last_game_info before the call
ParseHeaderFrom(step, st, lgi) ==
    IF step = 1 THEN        \* build_version = reader.read_uint32()
        LET r == read_uint32(st.rd)
        IN  IF ~r.ok THEN HeaderFailure(r.err, st, lgi)
            ELSE ParseHeaderFrom(2, [st EXCEPT !.rd = r.rd, !.build_version = r.n], lgi)
    ELSE IF step = 2 THEN   \* header_size = reader.read_uint32()
        LET r == read_uint32(st.rd)
        IN  IF ~r.ok THEN HeaderFailure(r.err, st, lgi)
            ELSE ParseHeaderFrom(3, [st EXCEPT !.rd = r.rd, !.header_size = r.n], lgi)
    ELSE IF step = 3 THEN   \* header_version = reader.read_uint32()
        LET r == read_uint32(st.rd)
        IN  IF ~r.ok THEN HeaderFailure(r.err, st, lgi)
            ELSE ParseHeaderFrom(4, [st EXCEPT !.rd = r.rd, !.header_version = r.n], lgi)
    ELSE IF step = 4 THEN   \* is_compressed, from header version 1 on
        IF st.header_version < 1 THEN ParseHeaderFrom(5, st, lgi)
        ELSE LET r == read_uint32(st.rd)
             IN  IF ~r.ok THEN HeaderFailure(r.err, st, lgi)
                 ELSE ParseHeaderFrom(5, [st EXCEPT !.rd = r.rd,
                                                    !.is_compressed = (r.n # 0)], lgi)
    ELSE IF step = 5 THEN   \* info_bytes = reader.read_bytes(header_size), decoded
        LET r == read_bytes(st.rd, st.header_size)
        IN  IF ~r.ok THEN HeaderFailure(r.err, st, lgi)
            ELSE IF ~IsUtf8(r.bytes) THEN HeaderFailure(Txt.e_unicode, st, lgi)
            ELSE ParseHeaderFrom(6, [st EXCEPT !.rd = r.rd, !.info_str = r.bytes], lgi)
    ELSE IF step = 6 THEN   \* game_info = json.loads(info_str)
        LET js == json_loads(st.info_str)
        IN  IF ~js.ok THEN HeaderFailure(Txt.e_json, st, lgi)
            ELSE IF ~js.isdict THEN HeaderFailure(Txt.e_attr, st, lgi)
            ELSE ParseHeaderFrom(7, [st EXCEPT !.game_info = js.d], lgi)
    ELSE                    \* the header is populated from game_info
        LET game_info == Update(st.game_info,
                                (Txt.buildVersion :> PyInt(st.build_version))
                                  @@ (Txt.headerVersion :> PyInt(st.header_version))
                                  @@ (Txt.isCompressed :> PyBool(st.is_compressed)))
        IN  [ok |-> TRUE, err |-> << >>, rd |-> st.rd, warnings |-> << >>, log |-> << >>,
             header |-> [SaveGameHeader EXCEPT
                           !.game_info = game_info,
                           !.cluster_id = Get(st.game_info, Txt.clusterId, PyStr(<< >>)),
                           !.num_cycles = Get(st.game_info, Txt.numberOfCycles, PyInt(0)),
                           !.num_duplicants =
                               Get(st.game_info, Txt.numberOfDuplicants, PyInt(0))],
             lgi |-> [set |-> TRUE, gi |-> game_info]]

\* _parse_header(reader, result): [ok, err, header, rd, warnings, log, lgi]
_parse_header(rd0, lgi) ==
    ParseHeaderFrom(1, [rd |-> rd0, build_version |-> 0, header_size |-> 0,
                        header_version |-> 0, is_compressed |-> FALSE,
                        info_str |-> << >>, game_info |-> << >>], lgi)

\* a validation that lets every version through
VersionAccepted(version) == [ok |-> TRUE, err |-> << >>, log |-> << >>]

\* a validation that fails on every version as a comparison of an int with a
\* str does
VersionTypeError(version) == [ok |-> FALSE, err |-> Txt.e_type, log |-> << >>]

\* _validate_version(version): [ok, err, log]
_validate_version(version) ==
    IF ~(IsNumber(version.major) /\ version.major.n = SUPPORTED_MAJOR_VERSION)
    THEN [ok |-> FALSE, log |-> << >>,
          err |-> Txt.m_unsupported_major \o Format(version.major)
                    \o Txt.m_expected_major \o FormatInt(SUPPORTED_MAJOR_VERSION)]
    ELSE IF ~IsNumber(version.minor)
    THEN [ok |-> FALSE, log |-> << >>, err |-> Txt.e_type]
    ELSE IF ~(MIN_MINOR_VERSION <= version.minor.n /\ version.minor.n <= MAX_MINOR_VERSION)
    THEN [ok |-> TRUE, err |-> << >>,
          log |-> << LogRecord("WARNING",
                        Txt.m_minor_version \o Format(version.minor) \o Txt.m_may_not
                          \o FormatInt(MIN_MINOR_VERSION) \o << 45 >>
                          \o FormatInt(MAX_MINOR_VERSION)) >>]
    ELSE [ok |-> TRUE, err |-> << >>, log |-> << >>]

TemplateKeys ==
    << Txt.MinionIdentity, Txt.MinionResume, Txt.MinionModifiers,
       Txt.KleiAITraits, Txt.KleiAIEffects >>

\* _parse_templates(reader, result): [templates, warnings]; the reader is
\* read to its end and put back.
_parse_templates(rd) ==
    LET blob == Slice(rd.data, get_position(rd), Len(rd.data))
        names == SelectSeq(TemplateKeys, LAMBDA key : Find(blob, key, 0) # -1)
    IN  [templates |-> names,
         warnings |-> IF names = << >> THEN << Txt.m_templates_minimal >> ELSE << >>]

\* find_int_after(label, default_val) of _parse_world, over the bytes left
find_int_after(body, label, default_val) ==
    LET idx == Find(body, label, 0)
        window == Slice(body, idx, idx + 256)
        hits == { offset \in Len(label) .. (Max(Len(label), Len(window) - 4) - 1) :
                      I32(window, offset) >= 8 /\ I32(window, offset) <= 10000 }
    IN  IF idx = -1 \/ hits = {} THEN default_val
        ELSE I32(window, CHOOSE o \in hits : \A o2 \in hits : o <= o2)

\* int(gi.get(K, 0) or gi.get(k, 0) or 0)
HeaderDimension(gi, upper, lower) ==
    ToInt(PyOr(PyOr(Get(gi, upper, PyInt(0)), Get(gi, lower, PyInt(0))), PyInt(0)))

\* ValueError of int() on a string
IntErrorMessage(v) == Txt.e_int \o << 58, 32, 39 >> \o v.s \o << 39 >>

\* _parse_world(reader, result): [world, warnings]; the dimensions come from
\* self.last_game_info, then from a scan of the bytes left for the labels.
_parse_world(rd, lgi) ==
    LET gi == IF lgi.set THEN lgi.gi ELSE << >>
        wv == PyOr(PyOr(Get(gi, Txt.WidthInCells, PyInt(0)),
                        Get(gi, Txt.widthInCells, PyInt(0))), PyInt(0))
        hv == PyOr(PyOr(Get(gi, Txt.HeightInCells, PyInt(0)),
                        Get(gi, Txt.heightInCells, PyInt(0))), PyInt(0))
        w == HeaderDimension(gi, Txt.WidthInCells, Txt.widthInCells)
        h == HeaderDimension(gi, Txt.HeightInCells, Txt.heightInCells)
        body == Slice(rd.data, get_position(rd), Len(rd.data))
        w2 == IF w.n = 0 THEN find_int_after(body, Txt.WidthInCells, w.n) ELSE w.n
        h2 == IF h.n = 0 THEN find_int_after(body, Txt.HeightInCells, h.n) ELSE h.n
    IN  IF ~w.ok
        THEN [world |-> SaveGameWorld,
              warnings |-> << Txt.m_world_parsing_error \o IntErrorMessage(wv) >>]
        ELSE IF ~h.ok
        THEN [world |-> [SaveGameWorld EXCEPT !.width_in_cells = w.n],
              warnings |-> << Txt.m_world_parsing_error \o IntErrorMessage(hv) >>]
        ELSE IF w.n = 0 \/ h.n = 0
        THEN [world |-> [width_in_cells |-> w2, height_in_cells |-> h2],
              warnings |-> << Txt.m_world_preserved >>]
        ELSE [world |-> [width_in_cells |-> w.n, height_in_cells |-> h.n],
              warnings |-> << Txt.m_world_preserved >>]

\* the warnings of _parse_settings, _parse_sim_data, _parse_game_objects and
\* _parse_game_data, which decode nothing yet
PlaceholderWarnings ==
    << Txt.m_settings, Txt.m_sim, Txt.m_game_objects, Txt.m_game_data >>

\* _parse_save_data after _parse_header returned ph: the version check and
\* the sections
ParseSections(ph) ==
    LET version == [major |-> Get(ph.header.game_info, Txt.saveMajorVersion,
                                  PyInt(SUPPORTED_MAJOR_VERSION)),
                    minor |-> Get(ph.header.game_info, Txt.saveMinorVersion,
                                  PyInt(MAX_MINOR_VERSION))]
        vv == _validate_version(version)
        tp == _parse_templates(ph.rd)
        wd == _parse_world(ph.rd, ph.lgi)
    IN  IF ~ph.ok
        THEN [ok |-> FALSE, err |-> ph.err, save_game |-> NoSaveGame,
              warnings |-> ph.warnings, lgi |-> ph.lgi,
              log |-> ph.log \o << LogRecord("ERROR", Txt.m_error_in_save_data \o ph.err) >>]
        ELSE IF ~vv.ok
        THEN [ok |-> FALSE, err |-> vv.err, save_game |-> NoSaveGame,
              warnings |-> << >>, lgi |-> ph.lgi,
              log |-> << LogRecord("ERROR", Txt.m_error_in_save_data \o vv.err) >>]
        ELSE [ok |-> TRUE, err |-> << >>,
              save_game |-> [SaveGame EXCEPT !.header = ph.header, !.version = version,
                                             !.templates = tp.templates,
                                             !.world = wd.world],
              warnings |-> tp.warnings \o wd.warnings \o PlaceholderWarnings,
              lgi |-> ph.lgi, log |-> vv.log]

\* _parse_save_data(file_data, result): [ok, err, save_game, warnings, log, lgi]
_parse_save_data(file_data, lgi) ==
    ParseSections(_parse_header(BinaryReader(file_data), lgi))
-----------------------------------------------------------------------------
(* The lookup tables of the decoders, as the code writes them.             *)

\* known_ids.FALLBACK_TRAIT_IDS, which OniSaveParser._KNOWN_TRAIT_IDS repeats
FALLBACK_TRAIT_IDS == {
    <<65, 103, 103, 114, 101, 115, 115, 105, 118, 101>>,    \* "Aggressive"
    <<65, 108, 108, 101, 114, 103, 105, 101, 115>>,    \* "Allergies"
    <<65, 110, 101, 109, 105, 99>>,    \* "Anemic"
    <<65, 114, 99, 104, 97, 101, 111, 108, 111, 103, 105, 115, 116>>,    \* "Archaeologist"
    <<66, 97, 108, 108, 111, 111, 110, 65, 114, 116, 105, 115, 116>>,    \* "BalloonArtist"
    <<66, 101, 100, 115, 105, 100, 101, 77, 97, 110, 110, 101, 114>>,    \* "BedsideManner"
    <<66, 105, 110, 103, 101, 69, 97, 116, 101, 114>>,    \* "BingeEater"
    <<67, 108, 97, 117, 115, 116, 114, 111, 112, 104, 111, 98, 105, 99>>,    \* "Claustrophobic"
    <<68, 101, 101, 112, 101, 114, 68, 105, 118, 101, 114, 115, 76, 117, 110, 103, 115>>,    \* "DeeperDiversLungs"
    <<69, 97, 114, 108, 121, 66, 105, 114, 100>>,    \* "EarlyBird"
    <<70, 97, 115, 116, 76, 101, 97, 114, 110, 101, 114>>,    \* "FastLearner"
    <<70, 108, 97, 116, 117, 108, 101, 110, 99, 101>>,    \* "Flatulence"
    <<70, 111, 111, 100, 105, 101>>,    \* "Foodie"
    <<71, 114, 101, 97, 115, 101, 109, 111, 110, 107, 101, 121>>,    \* "Greasemonkey"
    <<72, 101, 109, 111, 112, 104, 111, 98, 105, 97>>,    \* "Hemophobia"
    <<73, 110, 116, 101, 114, 105, 111, 114, 68, 101, 99, 111, 114, 97, 116, 111, 114>>,    \* "InteriorDecorator"
    <<73, 114, 111, 110, 71, 117, 116>>,    \* "IronGut"
    <<77, 111, 108, 101, 72, 97, 110, 100, 115>>,    \* "MoleHands"
    <<77, 111, 117, 116, 104, 66, 114, 101, 97, 116, 104, 101, 114>>,    \* "MouthBreather"
    <<78, 97, 114, 99, 111, 108, 101, 112, 115, 121>>,    \* "Narcolepsy"
    <<78, 105, 103, 104, 116, 79, 119, 108>>,    \* "NightOwl"
    <<78, 111, 111, 100, 108, 101, 65, 114, 109, 115>>,    \* "NoodleArms"
    <<82, 111, 99, 107, 67, 114, 117, 115, 104, 101, 114>>,    \* "RockCrusher"
    <<83, 105, 109, 112, 108, 101, 84, 97, 115, 116, 101, 115>>,    \* "SimpleTastes"
    <<83, 108, 111, 119, 76, 101, 97, 114, 110, 101, 114>>,    \* "SlowLearner"
    <<83, 109, 97, 108, 108, 66, 108, 97, 100, 100, 101, 114>>,    \* "SmallBladder"
    <<83, 110, 111, 114, 101, 114>>,    \* "Snorer"
    <<83, 111, 108, 105, 116, 97, 114, 121, 83, 108, 101, 101, 112, 101, 114>>,    \* "SolitarySleeper"
    <<83, 112, 97, 114, 107, 108, 101, 83, 116, 114, 101, 97, 107, 101, 114>>,    \* "SparkleStreaker"
    <<83, 116, 105, 99, 107, 101, 114, 66, 111, 109, 98, 101, 114>>,    \* "StickerBomber"
    <<83, 116, 114, 101, 115, 115, 86, 111, 109, 105, 116, 101, 114>>,    \* "StressVomiter"
    <<83, 116, 114, 111, 110, 103, 65, 114, 109>>,    \* "StrongArm"
    <<83, 116, 114, 111, 110, 103, 73, 109, 109, 117, 110, 101, 83, 121, 115, 116, 101, 109>>,    \* "StrongImmuneSystem"
    <<83, 117, 110, 110, 121, 68, 105, 115, 112, 111, 115, 105, 116, 105, 111, 110>>,    \* "SunnyDisposition"
    <<84, 119, 105, 110, 107, 108, 101, 116, 111, 101, 115>>,    \* "Twinkletoes"
    <<85, 103, 108, 121, 67, 114, 105, 101, 114>>,    \* "UglyCrier"
    <<85, 110, 99, 117, 108, 116, 117, 114, 101, 100>>,    \* "Uncultured"
    <<87, 101, 97, 107, 73, 109, 109, 117, 110, 101, 83, 121, 115, 116, 101, 109>>,    \* "WeakImmuneSystem"
    <<87, 111, 114, 107, 97, 104, 111, 108, 105, 99>>    \* "Workaholic"
  }

\* known_ids.FALLBACK_EFFECT_IDS, which OniSaveParser._KNOWN_EFFECT_IDS repeats
FALLBACK_EFFECT_IDS == {
    <<65, 110, 101, 119, 72, 111, 112, 101>>,    \* "AnewHope"
    <<67, 101, 110, 116, 101, 114, 79, 102, 65, 116, 116, 101, 110, 116, 105, 111, 110>>,    \* "CenterOfAttention"
    <<67, 111, 108, 100, 65, 105, 114>>,    \* "ColdAir"
    <<67, 111, 111, 108, 105, 110, 103, 68, 111, 119, 110>>,    \* "CoolingDown"
    <<68, 97, 114, 107, 110, 101, 115, 115>>,    \* "Darkness"
    <<68, 105, 114, 116, 121, 72, 97, 110, 100, 115>>,    \* "DirtyHands"
    <<68, 105, 115, 116, 117, 114, 98, 101, 100, 83, 108, 101, 101, 112>>,    \* "DisturbedSleep"
    <<70, 117, 108, 108, 66, 108, 97, 100, 100, 101, 114>>,    \* "FullBladder"
    <<72, 121, 112, 101, 114, 116, 104, 101, 114, 109, 105, 97>>,    \* "Hyperthermia"
    <<72, 121, 112, 111, 116, 104, 101, 114, 109, 105, 97>>,    \* "Hypothermia"
    <<76, 105, 103, 104, 116, 87, 111, 117, 110, 100, 115>>,    \* "LightWounds"
    <<77, 101, 110, 116, 97, 108, 66, 114, 101, 97, 107>>,    \* "MentalBreak"
    <<77, 111, 100, 101, 114, 97, 116, 101, 87, 111, 117, 110, 100, 115>>,    \* "ModerateWounds"
    <<77, 111, 117, 114, 110, 105, 110, 103>>,    \* "Mourning"
    <<78, 97, 114, 99, 111, 108, 101, 112, 116, 105, 99, 83, 108, 101, 101, 112>>,    \* "NarcolepticSleep"
    <<78, 101, 119, 67, 114, 101, 119, 65, 114, 114, 105, 118, 97, 108>>,    \* "NewCrewArrival"
    <<82, 101, 100, 65, 108, 101, 114, 116>>,    \* "RedAlert"
    <<82, 101, 115, 116, 102, 117, 108, 83, 108, 101, 101, 112>>,    \* "RestfulSleep"
    <<83, 101, 118, 101, 114, 101, 87, 111, 117, 110, 100, 115>>,    \* "SevereWounds"
    <<83, 108, 101, 101, 112>>,    \* "Sleep"
    <<83, 109, 101, 108, 108, 101, 100, 80, 117, 116, 114, 105, 100, 79, 100, 111, 117, 114>>,    \* "SmelledPutridOdour"
    <<83, 111, 114, 101, 66, 97, 99, 107>>,    \* "SoreBack"
    <<83, 116, 97, 108, 101, 70, 111, 111, 100>>,    \* "StaleFood"
    <<83, 116, 101, 112, 112, 101, 100, 73, 110, 67, 111, 110, 116, 97, 109, 105, 110, 97, 116, 101, 100, 87, 97, 116, 101, 114>>,    \* "SteppedInContaminatedWater"
    <<83, 116, 114, 101, 115, 115, 102, 117, 108, 121, 69, 109, 112, 116, 121, 105, 110, 103, 66, 108, 97, 100, 100, 101, 114>>,    \* "StressfulyEmptyingBladder"
    <<85, 110, 99, 108, 101, 97, 110>>,    \* "Unclean"
    <<85, 110, 99, 111, 109, 102, 111, 114, 116, 97, 98, 108, 101, 83, 108, 101, 101, 112>>,    \* "UncomfortableSleep"
    <<85, 110, 100, 101, 114, 87, 97, 116, 101, 114>>,    \* "UnderWater"
    <<86, 111, 109, 105, 116, 105, 110, 103>>,    \* "Vomiting"
    <<87, 97, 114, 109, 65, 105, 114>>,    \* "WarmAir"
    <<87, 97, 114, 109, 105, 110, 103, 85, 112>>,    \* "WarmingUp"
    <<87, 97, 115, 65, 116, 116, 97, 99, 107, 101, 100>>,    \* "WasAttacked"
    <<87, 101, 108, 108, 70, 101, 100>>    \* "WellFed"
  }

\* map_group: alias
GroupAlias ==
    (<<109, 105, 110, 105, 110, 103>> :> <<77, 105, 110, 105, 110, 103>>)    \* "mining": "Mining"
 @@ (<<98, 117, 105, 108, 100, 105, 110, 103>> :> <<66, 117, 105, 108, 100, 105, 110, 103>>)    \* "building": "Building"
 @@ (<<102, 97, 114, 109, 105, 110, 103>> :> <<70, 97, 114, 109, 105, 110, 103>>)    \* "farming": "Farming"
 @@ (<<114, 97, 110, 99, 104, 105, 110, 103>> :> <<82, 97, 110, 99, 104, 105, 110, 103>>)    \* "ranching": "Ranching"
 @@ (<<114, 101, 115, 101, 97, 114, 99, 104, 105, 110, 103>> :> <<82, 101, 115, 101, 97, 114, 99, 104>>)    \* "researching": "Research"
 @@ (<<114, 101, 115, 101, 97, 114, 99, 104>> :> <<82, 101, 115, 101, 97, 114, 99, 104>>)    \* "research": "Research"
 @@ (<<99, 111, 111, 107, 105, 110, 103>> :> <<67, 111, 111, 107, 105, 110, 103>>)    \* "cooking": "Cooking"
 @@ (<<97, 114, 116, 105, 110, 103>> :> <<65, 114, 116>>)    \* "arting": "Art"
 @@ (<<97, 114, 116>> :> <<65, 114, 116>>)    \* "art": "Art"
 @@ (<<104, 97, 117, 108, 105, 110, 103>> :> <<72, 97, 117, 108, 105, 110, 103>>)    \* "hauling": "Hauling"
 @@ (<<115, 117, 105, 116, 115>> :> <<83, 117, 105, 116, 115>>)    \* "suits": "Suits"
 @@ (<<116, 101, 99, 104, 110, 105, 99, 97, 108, 115>> :> <<84, 101, 99, 104, 110, 105, 99, 97, 108, 115>>)    \* "technicals": "Technicals"
 @@ (<<101, 110, 103, 105, 110, 101, 101, 114, 105, 110, 103>> :> <<69, 110, 103, 105, 110, 101, 101, 114, 105, 110, 103>>)    \* "engineering": "Engineering"
 @@ (<<98, 97, 115, 101, 107, 101, 101, 112, 105, 110, 103>> :> <<66, 97, 115, 101, 107, 101, 101, 112, 105, 110, 103>>)    \* "basekeeping": "Basekeeping"
 @@ (<<97, 115, 116, 114, 111, 110, 97, 117, 116, 105, 110, 103>> :> <<77, 97, 110, 97, 103, 101, 109, 101, 110, 116>>)    \* "astronauting": "Management"
 @@ (<<109, 101, 100, 105, 99, 105, 110, 101>> :> <<77, 101, 100, 105, 99, 97, 108, 65, 105, 100>>)    \* "medicine": "MedicalAid"
 @@ (<<114, 111, 99, 107, 101, 116, 112, 105, 108, 111, 116, 105, 110, 103>> :> <<77, 97, 110, 97, 103, 101, 109, 101, 110, 116>>)    \* "rocketpiloting": "Management"
 @@ (<<109, 101, 100, 105, 99, 97, 108, 97, 105, 100>> :> <<77, 101, 100, 105, 99, 97, 108, 65, 105, 100>>)    \* "medicalaid": "MedicalAid"

\* map_group: the prefixes, tried in this order
GroupPrefixes == <<
    << <<98, 117, 105, 108, 100>>, <<66, 117, 105, 108, 100, 105, 110, 103>> >>,    \* ("build", "Building")
    << <<114, 101, 115, 101, 97, 114>>, <<82, 101, 115, 101, 97, 114, 99, 104>> >>,    \* ("resear", "Research")
    << <<114, 101, 115, 101, 97>>, <<82, 101, 115, 101, 97, 114, 99, 104>> >>,    \* ("resea", "Research")
    << <<109, 105, 110>>, <<77, 105, 110, 105, 110, 103>> >>,    \* ("min", "Mining")
    << <<102, 97, 114, 109>>, <<70, 97, 114, 109, 105, 110, 103>> >>,    \* ("farm", "Farming")
    << <<114, 97, 110, 99, 104>>, <<82, 97, 110, 99, 104, 105, 110, 103>> >>,    \* ("ranch", "Ranching")
    << <<111, 112, 101, 114, 97, 116>>, <<79, 112, 101, 114, 97, 116, 105, 110, 103>> >>,    \* ("operat", "Operating")
    << <<101, 110, 103, 105, 110>>, <<69, 110, 103, 105, 110, 101, 101, 114, 105, 110, 103>> >>,    \* ("engin", "Engineering")
    << <<109, 101, 100, 105, 99, 97>>, <<77, 101, 100, 105, 99, 97, 108, 65, 105, 100>> >>,    \* ("medica", "MedicalAid")
    << <<109, 101, 100>>, <<77, 101, 100, 105, 99, 97, 108, 65, 105, 100>> >>,    \* ("med", "MedicalAid")
    << <<99, 111, 111, 107>>, <<67, 111, 111, 107, 105, 110, 103>> >>,    \* ("cook", "Cooking")
    << <<97, 114, 116>>, <<65, 114, 116>> >>,    \* ("art", "Art")
    << <<104, 97, 117, 108>>, <<72, 97, 117, 108, 105, 110, 103>> >>,    \* ("haul", "Hauling")
    << <<116, 105, 100, 121>>, <<66, 97, 115, 101, 107, 101, 101, 112, 105, 110, 103>> >>,    \* ("tidy", "Basekeeping")
    << <<115, 117, 105, 116>>, <<83, 117, 105, 116, 115>> >>,    \* ("suit", "Suits")
    << <<116, 101, 99, 104>>, <<84, 101, 99, 104, 110, 105, 99, 97, 108, 115>> >>,    \* ("tech", "Technicals")
    << <<112, 121, 114, 111, 116, 101, 99, 104>>, <<84, 101, 99, 104, 110, 105, 99, 97, 108, 115>> >>,    \* ("pyrotech", "Technicals")
    << <<97, 115, 116, 114, 111, 110>>, <<77, 97, 110, 97, 103, 101, 109, 101, 110, 116>> >>,    \* ("astron", "Management")
    << <<109, 97, 110, 97, 103, 101>>, <<77, 97, 110, 97, 103, 101, 109, 101, 110, 116>> >>    \* ("manage", "Management")
  >>

\* max_level
max_level ==
    (<<77, 105, 110, 105, 110, 103>> :> 3)    \* "Mining": 3
 @@ (<<66, 117, 105, 108, 100, 105, 110, 103>> :> 3)    \* "Building": 3
 @@ (<<70, 97, 114, 109, 105, 110, 103>> :> 3)    \* "Farming": 3
 @@ (<<82, 97, 110, 99, 104, 105, 110, 103>> :> 2)    \* "Ranching": 2
 @@ (<<82, 101, 115, 101, 97, 114, 99, 104>> :> 3)    \* "Research": 3
 @@ (<<67, 111, 111, 107, 105, 110, 103>> :> 2)    \* "Cooking": 2
 @@ (<<65, 114, 116>> :> 3)    \* "Art": 3
 @@ (<<72, 97, 117, 108, 105, 110, 103>> :> 2)    \* "Hauling": 2
 @@ (<<83, 117, 105, 116, 115>> :> 1)    \* "Suits": 1
 @@ (<<84, 101, 99, 104, 110, 105, 99, 97, 108, 115>> :> 2)    \* "Technicals": 2
 @@ (<<69, 110, 103, 105, 110, 101, 101, 114, 105, 110, 103>> :> 1)    \* "Engineering": 1
 @@ (<<66, 97, 115, 101, 107, 101, 101, 112, 105, 110, 103>> :> 2)    \* "Basekeeping": 2
 @@ (<<77, 97, 110, 97, 103, 101, 109, 101, 110, 116>> :> 2)    \* "Management": 2
 @@ (<<77, 101, 100, 105, 99, 97, 108, 65, 105, 100>> :> 3)    \* "MedicalAid": 3

\* map_hat_to_role: exact_map
HatExact ==
    (<<98, 117, 105, 108, 100, 105, 110, 103>> :> <<66, 117, 105, 108, 100, 101, 114>>)    \* "building": "Builder"
 @@ (<<109, 105, 110, 105, 110, 103>> :> <<77, 105, 110, 101, 114>>)    \* "mining": "Miner"
 @@ (<<100, 105, 103, 103, 105, 110, 103>> :> <<77, 105, 110, 101, 114>>)    \* "digging": "Miner"
 @@ (<<114, 101, 115, 101, 97, 114, 99, 104>> :> <<82, 101, 115, 101, 97, 114, 99, 104, 101, 114>>)    \* "research": "Researcher"
 @@ (<<99, 111, 111, 107, 105, 110, 103>> :> <<67, 111, 111, 107>>)    \* "cooking": "Cook"
 @@ (<<99, 111, 111, 107>> :> <<67, 111, 111, 107>>)    \* "cook": "Cook"
 @@ (<<102, 97, 114, 109, 105, 110, 103>> :> <<70, 97, 114, 109, 101, 114>>)    \* "farming": "Farmer"
 @@ (<<102, 97, 114, 109, 101, 114>> :> <<70, 97, 114, 109, 101, 114>>)    \* "farmer": "Farmer"
 @@ (<<114, 97, 110, 99, 104, 105, 110, 103>> :> <<82, 97, 110, 99, 104, 101, 114>>)    \* "ranching": "Rancher"
 @@ (<<100, 111, 99, 116, 111, 114>> :> <<68, 111, 99, 116, 111, 114>>)    \* "doctor": "Doctor"
 @@ (<<109, 101, 100, 105, 99, 97, 108>> :> <<68, 111, 99, 116, 111, 114>>)    \* "medical": "Doctor"
 @@ (<<97, 114, 116, 105, 115, 116>> :> <<65, 114, 116, 105, 115, 116>>)    \* "artist": "Artist"
 @@ (<<111, 112, 101, 114, 97, 116, 105, 110, 103>> :> <<79, 112, 101, 114, 97, 116, 111, 114>>)    \* "operating": "Operator"
 @@ (<<111, 112, 101, 114, 97, 116, 111, 114>> :> <<79, 112, 101, 114, 97, 116, 111, 114>>)    \* "operator": "Operator"
 @@ (<<101, 110, 103, 105, 110, 101, 101, 114, 105, 110, 103>> :> <<69, 110, 103, 105, 110, 101, 101, 114>>)    \* "engineering": "Engineer"
 @@ (<<101, 110, 103, 105, 110, 101, 101, 114>> :> <<69, 110, 103, 105, 110, 101, 101, 114>>)    \* "engineer": "Engineer"
 @@ (<<104, 97, 117, 108, 105, 110, 103>> :> <<67, 111, 117, 114, 105, 101, 114>>)    \* "hauling": "Courier"
 @@ (<<115, 117, 112, 112, 108, 121>> :> <<67, 111, 117, 114, 105, 101, 114>>)    \* "supply": "Courier"
 @@ (<<116, 105, 100, 121, 105, 110, 103>> :> <<83, 119, 101, 101, 112, 101, 114>>)    \* "tidying": "Sweeper"

\* map_hat_to_role: prefix_map
HatPrefixes == <<
    << <<98, 117, 105, 108, 100>>, <<66, 117, 105, 108, 100, 101, 114>> >>,    \* ("build", "Builder")
    << <<114, 101, 115, 101, 97, 114>>, <<82, 101, 115, 101, 97, 114, 99, 104, 101, 114>> >>,    \* ("resear", "Researcher")
    << <<109, 105, 110>>, <<77, 105, 110, 101, 114>> >>,    \* ("min", "Miner")
    << <<102, 97, 114, 109>>, <<70, 97, 114, 109, 101, 114>> >>,    \* ("farm", "Farmer")
    << <<114, 97, 110, 99, 104>>, <<82, 97, 110, 99, 104, 101, 114>> >>,    \* ("ranch", "Rancher")
    << <<111, 112, 101, 114, 97, 116>>, <<79, 112, 101, 114, 97, 116, 111, 114>> >>,    \* ("operat", "Operator")
    << <<101, 110, 103, 105, 110>>, <<69, 110, 103, 105, 110, 101, 101, 114>> >>,    \* ("engin", "Engineer")
    << <<109, 101, 100>>, <<68, 111, 99, 116, 111, 114>> >>,    \* ("med", "Doctor")
    << <<99, 111, 111, 107>>, <<67, 111, 111, 107>> >>,    \* ("cook", "Cook")
    << <<97, 114, 116>>, <<65, 114, 116, 105, 115, 116>> >>,    \* ("art", "Artist")
    << <<104, 97, 117, 108>>, <<67, 111, 117, 114, 105, 101, 114>> >>,    \* ("haul", "Courier")
    << <<115, 117, 112, 112, 108>>, <<67, 111, 117, 114, 105, 101, 114>> >>,    \* ("suppl", "Courier")
    << <<116, 105, 100, 121>>, <<83, 119, 101, 101, 112, 101, 114>> >>,    \* ("tidy", "Sweeper")
    << <<112, 121, 114, 111, 116, 101, 99, 104>>, <<80, 121, 114, 111, 116, 101, 99, 104, 110, 105, 99, 105, 97, 110>> >>    \* ("pyrotech", "Pyrotechnician")
  >>

\* the hat fallback of the inline MinionResume branch: exact_map
ResumeHatExact ==
    (<<98, 117, 105, 108, 100, 105, 110, 103>> :> <<66, 117, 105, 108, 100, 101, 114>>)    \* "building": "Builder"
 @@ (<<109, 105, 110, 105, 110, 103>> :> <<77, 105, 110, 101, 114>>)    \* "mining": "Miner"
 @@ (<<100, 105, 103, 103, 105, 110, 103>> :> <<77, 105, 110, 101, 114>>)    \* "digging": "Miner"
 @@ (<<114, 101, 115, 101, 97, 114, 99, 104>> :> <<82, 101, 115, 101, 97, 114, 99, 104, 101, 114>>)    \* "research": "Researcher"
 @@ (<<99, 111, 111, 107, 105, 110, 103>> :> <<67, 111, 111, 107>>)    \* "cooking": "Cook"
 @@ (<<99, 111, 111, 107>> :> <<67, 111, 111, 107>>)    \* "cook": "Cook"
 @@ (<<102, 97, 114, 109, 105, 110, 103>> :> <<70, 97, 114, 109, 101, 114>>)    \* "farming": "Farmer"
 @@ (<<102, 97, 114, 109, 101, 114>> :> <<70, 97, 114, 109, 101, 114>>)    \* "farmer": "Farmer"
 @@ (<<114, 97, 110, 99, 104, 105, 110, 103>> :> <<82, 97, 110, 99, 104, 101, 114>>)    \* "ranching": "Rancher"
 @@ (<<100, 111, 99, 116, 111, 114>> :> <<68, 111, 99, 116, 111, 114>>)    \* "doctor": "Doctor"
 @@ (<<109, 101, 100, 105, 99, 97, 108>> :> <<68, 111, 99, 116, 111, 114>>)    \* "medical": "Doctor"
 @@ (<<97, 114, 116, 105, 115, 116>> :> <<65, 114, 116, 105, 115, 116>>)    \* "artist": "Artist"
 @@ (<<111, 112, 101, 114, 97, 116, 105, 110, 103>> :> <<79, 112, 101, 114, 97, 116, 111, 114>>)    \* "operating": "Operator"
 @@ (<<111, 112, 101, 114, 97, 116, 111, 114>> :> <<79, 112, 101, 114, 97, 116, 111, 114>>)    \* "operator": "Operator"
 @@ (<<101, 110, 103, 105, 110, 101, 101, 114, 105, 110, 103>> :> <<69, 110, 103, 105, 110, 101, 101, 114>>)    \* "engineering": "Engineer"
 @@ (<<101, 110, 103, 105, 110, 101, 101, 114>> :> <<69, 110, 103, 105, 110, 101, 101, 114>>)    \* "engineer": "Engineer"
 @@ (<<104, 97, 117, 108, 105, 110, 103>> :> <<67, 111, 117, 114, 105, 101, 114>>)    \* "hauling": "Courier"
 @@ (<<115, 117, 112, 112, 108, 121>> :> <<67, 111, 117, 114, 105, 101, 114>>)    \* "supply": "Courier"
 @@ (<<116, 105, 100, 121, 105, 110, 103>> :> <<83, 119, 101, 101, 112, 101, 114>>)    \* "tidying": "Sweeper"
 @@ (<<112, 121, 114, 111, 116, 101, 99, 104, 110, 105, 99, 115>> :> <<80, 121, 114, 111, 116, 101, 99, 104, 110, 105, 99, 105, 97, 110>>)    \* "pyrotechnics": "Pyrotechnician"

\* the hat fallback of the inline MinionResume branch: its prefixes
ResumeHatPrefixes == <<
    << <<98, 117, 105, 108, 100>>, <<66, 117, 105, 108, 100, 101, 114>> >>,    \* ("build", "Builder")
    << <<114, 101, 115, 101, 97, 114>>, <<82, 101, 115, 101, 97, 114, 99, 104, 101, 114>> >>,    \* ("resear", "Researcher")
    << <<114, 101, 115, 101, 97>>, <<82, 101, 115, 101, 97, 114, 99, 104, 101, 114>> >>,    \* ("resea", "Researcher")
    << <<109, 105, 110>>, <<77, 105, 110, 101, 114>> >>,    \* ("min", "Miner")
    << <<102, 97, 114, 109>>, <<70, 97, 114, 109, 101, 114>> >>,    \* ("farm", "Farmer")
    << <<114, 97, 110, 99, 104>>, <<82, 97, 110, 99, 104, 101, 114>> >>,    \* ("ranch", "Rancher")
    << <<111, 112, 101, 114, 97, 116>>, <<79, 112, 101, 114, 97, 116, 111, 114>> >>,    \* ("operat", "Operator")
    << <<101, 110, 103, 105, 110>>, <<69, 110, 103, 105, 110, 101, 101, 114>> >>,    \* ("engin", "Engineer")
    << <<109, 101, 100>>, <<68, 111, 99, 116, 111, 114>> >>,    \* ("med", "Doctor")
    << <<99, 111, 111, 107>>, <<67, 111, 111, 107>> >>,    \* ("cook", "Cook")
    << <<97, 114, 116>>, <<65, 114, 116, 105, 115, 116>> >>,    \* ("art", "Artist")
    << <<104, 97, 117, 108>>, <<67, 111, 117, 114, 105, 101, 114>> >>,    \* ("haul", "Courier")
    << <<115, 117, 112, 112, 108>>, <<67, 111, 117, 114, 105, 101, 114>> >>,    \* ("suppl", "Courier")
    << <<116, 105, 100, 121>>, <<83, 119, 101, 101, 112, 101, 114>> >>,    \* ("tidy", "Sweeper")
    << <<112, 121, 114, 111, 116, 101, 99, 104>>, <<80, 121, 114, 111, 116, 101, 99, 104, 110, 105, 99, 105, 97, 110>> >>,    \* ("pyrotech", "Pyrotechnician")
    << <<114, 97, 110, 99>>, <<82, 97, 110, 99, 104, 101, 114>> >>    \* ("ranc", "Rancher")
  >>

\* label_map, each range as the words of |vmin| and vmax
label_map ==
    (<<67, 97, 108, 111, 114, 105, 101, 115>> :> [key |-> "calories", vmin |-> 0, vmax |-> 1315859240])    \* "Calories": ("calories", 0.0, 1000000000.0)
 @@ (<<72, 101, 97, 108, 116, 104>> :> [key |-> "health", vmin |-> 0, vmax |-> 1148846080])    \* "Health": ("health", 0.0, 1000.0)
 @@ (<<83, 116, 114, 101, 115, 115>> :> [key |-> "stress", vmin |-> 0, vmax |-> 1120403456])    \* "Stress": ("stress", 0.0, 100.0)
 @@ (<<83, 116, 97, 109, 105, 110, 97>> :> [key |-> "stamina", vmin |-> 0, vmax |-> 1120403456])    \* "Stamina": ("stamina", 0.0, 100.0)
 @@ (<<68, 101, 99, 111, 114>> :> [key |-> "decor", vmin |-> 1148846080, vmax |-> 1148846080])    \* "Decor": ("decor", -1000.0, 1000.0)
 @@ (<<84, 101, 109, 112, 101, 114, 97, 116, 117, 114, 101>> :> [key |-> "temperature", vmin |-> 0, vmax |-> 1148846080])    \* "Temperature": ("temperature", 0.0, 1000.0)
 @@ (<<66, 114, 101, 97, 116, 104>> :> [key |-> "breath", vmin |-> 0, vmax |-> 1120403456])    \* "Breath": ("breath", 0.0, 100.0)
 @@ (<<66, 108, 97, 100, 100, 101, 114>> :> [key |-> "bladder", vmin |-> 0, vmax |-> 1120403456])    \* "Bladder": ("bladder", 0.0, 100.0)
 @@ (<<73, 109, 109, 117, 110, 101, 76, 101, 118, 101, 108>> :> [key |-> "immune_level", vmin |-> 0, vmax |-> 1120403456])    \* "ImmuneLevel": ("immune_level", 0.0, 100.0)
 @@ (<<84, 111, 120, 105, 99, 105, 116, 121>> :> [key |-> "toxicity", vmin |-> 0, vmax |-> 1120403456])    \* "Toxicity": ("toxicity", 0.0, 100.0)
 @@ (<<82, 97, 100, 105, 97, 116, 105, 111, 110, 66, 97, 108, 97, 110, 99, 101>> :> [key |-> "radiation_balance", vmin |-> 1176256512, vmax |-> 1176256512])    \* "RadiationBalance": ("radiation_balance", -10000.0, 10000.0)
 @@ (<<81, 117, 97, 108, 105, 116, 121, 79, 102, 76, 105, 102, 101>> :> [key |-> "morale", vmin |-> 1148846080, vmax |-> 1148846080])    \* "QualityOfLife": ("morale", -1000.0, 1000.0)

-----------------------------------------------------------------------------
(* Text of the body: decoding, case, sorting, length-prefixed strings and   *)
(* the float32 words the decoders compare.                                  *)

\* bytes.decode('utf-8', errors='ignore').  A byte of 128 and above occurs in
\* the bodies of this model only inside a word or a float (0x80, 0xE0, 0xFF)
\* where no well-formed multi-byte sequence starts, and such a byte the decode
\* drops.
DecodeIgnore(b) == SelectSeq(b, LAMBDA c : c < 128)

IsLetter(c) == (c >= 65 /\ c <= 90) \/ (c >= 97 /\ c <= 122)

\* \w of the regular expressions, on ASCII
IsWord(c) == IsLetter(c) \/ IsDigit(c) \/ c = 95

LowerByte(c) == IF c >= 65 /\ c <= 90 THEN c + 32 ELSE c
UpperByte(c) == IF c >= 97 /\ c <= 122 THEN c - 32 ELSE c

\* str.lower()
Lower(s) == [i \in 1 .. Len(s) |-> LowerByte(s[i])]

\* str.capitalize()
Capitalize(s) == [i \in 1 .. Len(s) |-> IF i = 1 THEN UpperByte(s[i]) ELSE LowerByte(s[i])]

\* s.startswith(pref)
StartsWith(s, pref) == Len(s) >= Len(pref) /\ SubSeq(s, 1, Len(pref)) = pref

\* the index after the letters (the digits) that start at index i of s
LettersEnd(s, i) ==
    LET stops == { j \in i .. Len(s) : ~IsLetter(s[j]) }
    IN  IF stops = {} THEN Len(s) + 1 ELSE CHOOSE j \in stops : \A k \in stops : j <= k

DigitsEnd(s, i) ==
    LET stops == { j \in i .. Len(s) : ~IsDigit(s[j]) }
    IN  IF stops = {} THEN Len(s) + 1 ELSE CHOOSE j \in stops : \A k \in stops : j <= k

\* the value of the first entry of an ordered (prefix, value) table whose
\* prefix starts s; default when there is none
FirstPrefix(table, s, default) ==
    LET hits == { i \in 1 .. Len(table) : StartsWith(s, table[i][1]) }
    IN  IF hits = {} THEN default
        ELSE table[CHOOSE i \in hits : \A j \in hits : i <= j][2]

Range(seq) == { seq[i] : i \in 1 .. Len(seq) }

\* a < b for two str, by code point
RECURSIVE LexLess(_, _)
LexLess(a, b) ==
    IF b = << >> THEN FALSE
    ELSE IF a = << >> THEN TRUE
    ELSE IF Head(a) # Head(b) THEN Head(a) < Head(b)
    ELSE LexLess(Tail(a), Tail(b))

\* sorted(list(dict.fromkeys(l))) for the set S of l's elements
RECURSIVE sorted(_)
sorted(S) ==
    IF S = {} THEN << >>
    ELSE LET least == CHOOSE x \in S : \A y \in S : x = y \/ LexLess(x, y)
         IN  << least >> \o sorted(S \ {least})

\* d.setdefault(k, v) as the dict it leaves
setdefault(d, k, v) == IF k \in DOMAIN d THEN d ELSE (k :> v) @@ d

\* The integers of the code have no width: where it compares an offset plus a
\* length read from the bytes with an end, the length is compared with what
\* is left before the end.

\* _read_klei_string(mv, off, end): (None, off) when no length fits, (None,
\* off + 4) when the length is negative or overruns end
_read_klei_string(mv, off, end) ==
    IF off + 4 > end THEN [none |-> TRUE, s |-> << >>, off |-> off]
    ELSE IF I32(mv, off) < 0 \/ I32(mv, off) > end - (off + 4)
    THEN [none |-> TRUE, s |-> << >>, off |-> off + 4]
    ELSE [none |-> FALSE,
          s |-> DecodeIgnore(Slice(mv, off + 4, off + 4 + I32(mv, off))),
          off |-> off + 4 + I32(mv, off)]

\* the first offset from p on where the scan of _scan_klei_strings finds a
\* length that fits before end; end when there is none (the scan moves on
\* one byte at a time over any other offset)
NextLength(mv, p, end) ==
    LET fits == { q \in p .. end - 4 : I32(mv, q) >= 0 /\ I32(mv, q) <= end - q - 4 }
    IN  IF fits = {} THEN end ELSE CHOOSE q \in fits : \A r \in fits : q <= r

\* _scan_klei_strings(mv, start, end, max_strings), from offset p with the
\* strings found so far: only non-empty strings are kept and counted
RECURSIVE ScanKleiStrings(_, _, _, _, _)
ScanKleiStrings(mv, p, end, max_strings, strings) ==
    IF p + 4 > end \/ Len(strings) >= max_strings THEN strings
    ELSE IF I32(mv, p) < 0 \/ I32(mv, p) > end - p - 4
    THEN ScanKleiStrings(mv, NextLength(mv, p, end), end, max_strings, strings)
    ELSE ScanKleiStrings(mv, p + 4 + I32(mv, p), end, max_strings,
            IF DecodeIgnore(Slice(mv, p + 4, p + 4 + I32(mv, p))) = << >> THEN strings
            ELSE Append(strings, DecodeIgnore(Slice(mv, p + 4, p + 4 + I32(mv, p)))))

_scan_klei_strings(mv, start, end, max_strings) ==
    ScanKleiStrings(mv, start, end, max_strings, << >>)

\* A float32 is kept as its word: the int32 of the same four bytes.  Among
\* the words of non-negative floats the order of the words is the order of
\* the floats.
FloatWord == [ half |-> 1056964608, one |-> 1065353216, two |-> 1073741824,
               two_and_half |-> 1075838976, ten |-> 1092616192,
               minus_zero |-> -2147483647 - 1,
               twenty_five |-> 1103626240, fifty |-> 1112014848,
               two_thousand |-> 1157234688, minus_five |-> -1063256064,
               nan |-> 2143289344 ]

\* the words of 0.5, 1.5 .. 9.5
HalfWords == << 1056964608, 1069547520, 1075838976, 1080033280, 1083179008,
                1085276160, 1087373312, 1089470464, 1091043328, 1092091904 >>

\* int(round(fv)) when 0.0 <= fv <= 10.0 and -1 otherwise, for the float of
\* word w: round() takes a tie to the even neighbour, so k - 0.5 reaches k
\* only for an even k
FloatLevel(w) ==
    IF w = FloatWord.minus_zero THEN 0
    ELSE IF w < 0 \/ w > FloatWord.ten THEN -1
    ELSE Cardinality({ k \in 1 .. 10 : w > HalfWords[k] \/ (w = HalfWords[k] /\ k % 2 = 0) })
-----------------------------------------------------------------------------
(* DuplicantDecoder: the behaviour decoders.  OniSaveParser carries the     *)
(* same code inline; where the two differ the operators take the flag       *)
(* bound, which says whether the local function map_group of the inline     *)
(* decoder has been defined yet (in DuplicantDecoder it always is).         *)

\* map_group(raw)
map_group(raw) ==
    IF Lower(raw) \in DOMAIN GroupAlias THEN GroupAlias[Lower(raw)]
    ELSE FirstPrefix(GroupPrefixes, Lower(raw), Capitalize(raw))

\* the first length-prefixed string of a key's payload; "" when it holds none
PayloadString(payload) ==
    IF Len(payload) < 4 THEN << >>
    ELSE IF 0 <= I32(payload, 0) /\ I32(payload, 0) <= Len(payload) - 4
    THEN DecodeIgnore(Slice(payload, 4, 4 + I32(payload, 0)))
    ELSE << >>

\* if group_key: prev = aptitudes.get(group_key, 0); if lvl > prev: ...
Raise(aptitudes, group_key, lvl) ==
    IF group_key # << >> /\ lvl > Get(aptitudes, group_key, 0)
    THEN (group_key :> lvl) @@ aptitudes
    ELSE aptitudes

\* the level read at rp: an int32 in 0..10, else a float32 in [0.0, 10.0]
\* rounded, else None (-1)
LevelAt(pay, rp) ==
    IF rp + 4 > Len(pay) THEN -1
    ELSE IF 0 <= I32(pay, rp) /\ I32(pay, rp) <= 10 THEN I32(pay, rp)
    ELSE FloatLevel(I32(pay, rp))

\* the loop over the entries of AptitudeBySkillGroup, with left entries to go.
\* With map_group unbound the first entry that has a level raises
\* UnboundLocalError, which the except of the key swallows.
RECURSIVE AptitudeEntries(_, _, _, _, _)
AptitudeEntries(pay, rp, left, aptitudes, bound) ==
    IF left = 0 \/ rp + 4 > Len(pay) THEN aptitudes
    ELSE IF I32(pay, rp) < 0 \/ I32(pay, rp) > Len(pay) - (rp + 4) THEN aptitudes
    ELSE IF LevelAt(pay, rp + 4 + I32(pay, rp)) = -1
    THEN AptitudeEntries(pay, Min(Len(pay), rp + 4 + I32(pay, rp) + 4), left - 1,
                         aptitudes, bound)
    ELSE IF ~bound THEN aptitudes
    ELSE AptitudeEntries(pay, rp + 4 + I32(pay, rp) + 4, left - 1,
            Raise(aptitudes,
                  map_group(DecodeIgnore(Slice(pay, rp + 4, rp + 4 + I32(pay, rp)))),
                  LevelAt(pay, rp + 4 + I32(pay, rp))),
            bound)

\* the AptitudeBySkillGroup key: a count in 0..128, then the entries
AptitudeArray(pay, aptitudes, bound) ==
    IF Len(pay) >= 4 /\ 0 <= I32(pay, 0) /\ I32(pay, 0) <= 128
    THEN AptitudeEntries(pay, 4, I32(pay, 0), aptitudes, bound)
    ELSE aptitudes

\* the loop over the entries of MasteryByRoleID: a role id and a flag byte
RECURSIVE MasteryEntries(_, _, _, _)
MasteryEntries(pay, rp, left, mastered) ==
    IF left = 0 \/ rp + 4 > Len(pay) THEN mastered
    ELSE IF I32(pay, rp) < 0 \/ I32(pay, rp) > Len(pay) - (rp + 4) THEN mastered
    ELSE IF rp + 4 + I32(pay, rp) + 1 > Len(pay) THEN mastered
    ELSE MasteryEntries(pay, rp + 4 + I32(pay, rp) + 1, left - 1,
            IF pay[rp + 4 + I32(pay, rp) + 1] # 0
               /\ DecodeIgnore(Slice(pay, rp + 4, rp + 4 + I32(pay, rp))) # << >>
            THEN Append(mastered, DecodeIgnore(Slice(pay, rp + 4, rp + 4 + I32(pay, rp))))
            ELSE mastered)

\* the MasteryByRoleID key: a count in 0..256, then the entries
MasteryArray(pay) ==
    IF Len(pay) >= 4 /\ 0 <= I32(pay, 0) /\ I32(pay, 0) <= 256
    THEN MasteryEntries(pay, 4, I32(pay, 0), << >>)
    ELSE << >>

\* what the keys of a MinionResume block have given so far: the last
\* non-empty currentRole ("" for none), the aptitudes, and the non-empty
\* mastered lists in the order of their keys
NoResume == [currentRole |-> << >>, aptitudes |-> << >>, mastered |-> << >>]

\* one key of the block with its payload
ResumeKey(key, pay, res, bound) ==
    CASE key = Txt.currentRole ->
            IF PayloadString(pay) # << >>
            THEN [res EXCEPT !.currentRole = PayloadString(pay)] ELSE res
      [] key = Txt.AptitudeBySkillGroup ->
            [res EXCEPT !.aptitudes = AptitudeArray(pay, res.aptitudes, bound)]
      [] key = Txt.MasteryByRoleID ->
            IF MasteryArray(pay) # << >>
            THEN [res EXCEPT !.mastered = Append(res.mastered, MasteryArray(pay))] ELSE res
      [] OTHER -> res

\* the step that checks the length of the payload against the body, not
\* against the block
KeyValueUnbounded(mv, q, beh_end, key) ==
    IF key.none
    THEN [stop |-> FALSE, pair |-> FALSE, key |-> << >>, start |-> q, next |-> q + 1]
    ELSE IF key.off + 4 > beh_end
    THEN [stop |-> TRUE, pair |-> FALSE, key |-> key.s, start |-> q, next |-> q]
    ELSE IF I32(mv, key.off) < 0 \/ I32(mv, key.off) > Len(mv) - (key.off + 4)
    THEN [stop |-> FALSE, pair |-> FALSE, key |-> key.s, start |-> q, next |-> key.off + 4]
    ELSE [stop |-> FALSE, pair |-> TRUE, key |-> key.s, start |-> key.off + 4,
          next |-> key.off + 4 + I32(mv, key.off)]

\* One step of a key/value walk at offset q, given the key read there: the
\* key is None (go on at q + 1), no length fits (stop), the length is
\* negative or overruns the block (go on after it), or the pair lies in
\* [start, next).
KeyValueAfter(mv, q, beh_end, key) ==
    IF key.none
    THEN [stop |-> FALSE, pair |-> FALSE, key |-> << >>, start |-> q, next |-> q + 1]
    ELSE IF key.off + 4 > beh_end
    THEN [stop |-> TRUE, pair |-> FALSE, key |-> key.s, start |-> q, next |-> q]
    ELSE IF I32(mv, key.off) < 0 \/ I32(mv, key.off) > beh_end - (key.off + 4)
    THEN [stop |-> FALSE, pair |-> FALSE, key |-> key.s, start |-> q, next |-> key.off + 4]
    ELSE [stop |-> FALSE, pair |-> TRUE, key |-> key.s, start |-> key.off + 4,
          next |-> key.off + 4 + I32(mv, key.off)]

KeyValueAt(mv, q, beh_end) == KeyValueAfter(mv, q, beh_end, _read_klei_string(mv, q, beh_end))

\* the key/value walk of _parse_minion_resume from offset q
RECURSIVE ResumeWalk(_, _, _, _, _)
RECURSIVE ResumeStep(_, _, _, _, _)
ResumeWalk(mv, q, beh_end, res, bound) ==
    IF q >= beh_end THEN res
    ELSE ResumeStep(mv, beh_end, KeyValueAt(mv, q, beh_end), res, bound)

ResumeStep(mv, beh_end, kv, res, bound) ==
    IF kv.stop THEN res
    ELSE ResumeWalk(mv, kv.next, beh_end,
            IF kv.pair THEN ResumeKey(kv.key, Slice(mv, kv.start, kv.next), res, bound)
            ELSE res,
            bound)

\* _parse_minion_resume(mv, beh_start, beh_end)
_parse_minion_resume(mv, beh_start, beh_end) ==
    ResumeWalk(mv, beh_start, beh_end, NoResume, TRUE)

\* The array of Klei.AI.Traits and Klei.AI.Effects: the loop over the strings
\* that follow the count; empty strings are counted but not kept.
RECURSIVE CountedStrings(_, _, _, _)
CountedStrings(pay, rp, left, acc) ==
    IF left = 0 \/ rp >= Len(pay) \/ rp + 4 > Len(pay) THEN acc
    ELSE IF I32(pay, rp) < 0 \/ I32(pay, rp) > Len(pay) - (rp + 4) THEN acc
    ELSE CountedStrings(pay, rp + 4 + I32(pay, rp), left - 1,
            IF DecodeIgnore(Slice(pay, rp + 4, rp + 4 + I32(pay, rp))) = << >> THEN acc
            ELSE Append(acc, DecodeIgnore(Slice(pay, rp + 4, rp + 4 + I32(pay, rp)))))

\* a count in 0..most, then the strings
StringArray(pay, most) ==
    IF Len(pay) >= 4 /\ 0 <= I32(pay, 0) /\ I32(pay, 0) <= most
    THEN CountedStrings(pay, 4, I32(pay, 0), << >>)
    ELSE << >>

\* alias.get(t, t) of the traits branch
TraitAlias(t) == IF t = Txt.DiversLung THEN Txt.DeeperDiversLungs ELSE t

\* the traits read, kept whether known or not
TraitsKept(minion_info, traits) ==
    IF traits = << >> THEN minion_info
    ELSE setdefault(minion_info, "traits", sorted({ TraitAlias(t) : t \in Range(traits) }))

\* the Klei.AI.Traits / Traits branch, given the traits read
TraitsInto(minion_info, traits) ==
    IF { TraitAlias(t) : t \in Range(traits) } \cap FALLBACK_TRAIT_IDS = {} THEN minion_info
    ELSE setdefault(minion_info, "traits",
                    sorted({ TraitAlias(t) : t \in Range(traits) } \cap FALLBACK_TRAIT_IDS))

\* the Klei.AI.Effects / Effects branch, given the effects read
EffectsInto(minion_info, effects) ==
    IF effects = << >> THEN minion_info
    ELSE setdefault(minion_info, "effects", sorted(Range(effects) \cap FALLBACK_EFFECT_IDS))

\* map_hat_to_role(token): the letters and digits that follow the first
\* "hat_role_" of the token, matched by ([a-zA-Z]+)(\d*)
HatBase(group) ==
    IF group \in DOMAIN HatExact THEN HatExact[group]
    ELSE FirstPrefix(HatPrefixes, group, Capitalize(group))

HatRole(seg) ==
    IF LettersEnd(seg, 1) = 1 THEN << >>
    ELSE HatBase(Lower(SubSeq(seg, 1, LettersEnd(seg, 1) - 1)))
           \o (IF DigitsEnd(seg, LettersEnd(seg, 1)) = LettersEnd(seg, 1) THEN << >>
               ELSE Txt.tier \o SubSeq(seg, LettersEnd(seg, 1),
                                       DigitsEnd(seg, LettersEnd(seg, 1)) - 1))

map_hat_to_role(token) ==
    HatRole(SubSeq(token, Find(token, Txt.hat_role_, 0) + Len(Txt.hat_role_) + 1, Len(token)))

\* the Accessorizer / WearableAccessorizer branch, given the strings scanned:
\* the first hat token that maps to a role gives the job, unless one is set
AccessorizerInto(minion_info, strings) ==
    LET roles == SelectSeq([i \in 1 .. Len(strings) |->
                               IF Contains(strings[i], Txt.hat_role_)
                               THEN map_hat_to_role(strings[i]) ELSE << >>],
                           LAMBDA r : r # << >>)
    IN  IF roles = << >> THEN minion_info ELSE setdefault(minion_info, "job", roles[1])

\* _is_plausible_name(s): 2 to 40 characters matching [A-Za-z][A-Za-z '\-]*
\* and none of the words the body is full of
_is_plausible_name(s) ==
    /\ Len(s) >= 2 /\ Len(s) <= 40
    /\ s \notin {Txt.Minion, Txt.MinionIdentity, Txt.MALE, Txt.FEMALE, Txt.NB}
    /\ IsLetter(s[1])
    /\ \A i \in 2 .. Len(s) : IsLetter(s[i]) \/ s[i] \in {32, 39, 45}

\* What the keys of a MinionIdentity block have given so far.  arrival says
\* whether the dict the code tests with 'arrival_time' not in ... holds one.
NoIdentity == [name |-> << >>, found_name |-> FALSE, gender |-> << >>,
               arrival |-> FALSE, arrival_time |-> 0]

\* int(af64) for the float64 of the words lo and hi, 1.0 <= af64 < 10^12:
\* the exponent e and the 21 leading bits of the significand are in hi.  A
\* value of 2^31 and above lies beyond the integers of TLC and is kept as
\* its two words.
Float64Int(lo, hi) ==
    LET e == (hi \div 1048576) - 1023
        m == 1048576 + (hi % 1048576)
    IN  IF e <= 20 THEN m \div (2 ^ (20 - e))
        ELSE IF e <= 30
        THEN m * (2 ^ (e - 20)) + (IF lo >= 0 THEN 0 ELSE 2 ^ (e - 20)) + (lo \div (2 ^ (52 - e)))
        ELSE [float64 |-> << lo, hi >>]

\* The arrivalTime key.  An int32 that is not negative is taken whatever was
\* there.  Otherwise, and only while no arrival time is held, the payload is
\* read as an int64 in [0, 10^12) (which, its low word being negative, is
\* 2^31 at least and is kept as its two words), as a float32 (of the words
\* with the sign bit only -0.0 is >= 0.0) and as a float64 in [0, 10^12).
ArrivalTime(mv, q2, kv_len, id) ==
    IF kv_len < 4 THEN id
    ELSE IF I32(mv, q2) >= 0
    THEN [id EXCEPT !.arrival = TRUE, !.arrival_time = I32(mv, q2)]
    ELSE IF id.arrival THEN id
    ELSE IF kv_len >= 8 /\ I32(mv, q2 + 4) >= 0
              /\ (I32(mv, q2 + 4) < 232
                    \/ (I32(mv, q2 + 4) = 232 /\ I32(mv, q2) < -727379968))
    THEN [id EXCEPT !.arrival = TRUE,
                    !.arrival_time = [int64 |-> << I32(mv, q2), I32(mv, q2 + 4) >>]]
    ELSE IF I32(mv, q2) = FloatWord.minus_zero
    THEN [id EXCEPT !.arrival = TRUE, !.arrival_time = 0]
    ELSE IF kv_len >= 8 /\ I32(mv, q2 + 4) >= 0 /\ I32(mv, q2 + 4) < 1072693248
    THEN [id EXCEPT !.arrival = TRUE, !.arrival_time = 0]
    ELSE IF kv_len >= 8 /\ I32(mv, q2 + 4) >= 1072693248
              /\ (I32(mv, q2 + 4) < 1114446484
                    \/ (I32(mv, q2 + 4) = 1114446484 /\ I32(mv, q2) < -1577058304))
    THEN [id EXCEPT !.arrival = TRUE,
                    !.arrival_time = Float64Int(I32(mv, q2), I32(mv, q2 + 4))]
    ELSE id

\* one key of the block with its payload [q2, q2 + kv_len)
IdentityKey(key, mv, q2, kv_len, id) ==
    CASE key = Txt.name /\ _is_plausible_name(PayloadString(Slice(mv, q2, q2 + kv_len))) ->
            [id EXCEPT !.name = PayloadString(Slice(mv, q2, q2 + kv_len)),
                       !.found_name = TRUE]
      [] key = Txt.gender
           /\ PayloadString(Slice(mv, q2, q2 + kv_len)) \in {Txt.MALE, Txt.FEMALE, Txt.NB} ->
            [id EXCEPT !.gender = PayloadString(Slice(mv, q2, q2 + kv_len))]
      [] key = Txt.arrivalTime -> ArrivalTime(mv, q2, kv_len, id)
      [] OTHER -> id

\* the key/value walk of _parse_minion_identity from offset q
RECURSIVE IdentityWalk(_, _, _, _)
RECURSIVE IdentityStep(_, _, _, _)
IdentityWalk(mv, q, beh_end, id) ==
    IF q >= beh_end THEN id
    ELSE IdentityStep(mv, beh_end, KeyValueAt(mv, q, beh_end), id)

IdentityStep(mv, beh_end, kv, id) ==
    IF kv.stop THEN id
    ELSE IdentityWalk(mv, kv.next, beh_end,
            IF kv.pair THEN IdentityKey(kv.key, mv, kv.start, kv.next - kv.start, id)
            ELSE id)

\* if not found_name: the first plausible string of the block is the name
NameFallback(id, strings) ==
    IF id.found_name \/ SelectSeq(strings, _is_plausible_name) = << >> THEN id
    ELSE [id EXCEPT !.name = SelectSeq(strings, _is_plausible_name)[1]]

\* _parse_minion_identity(mv, beh_start, beh_end)
_parse_minion_identity(mv, beh_start, beh_end) ==
    NameFallback(IdentityWalk(mv, beh_start, beh_end, NoIdentity),
                 _scan_klei_strings(mv, beh_start, beh_end, 32))

\* the MinionIdentity branch, given what the block gave
IdentityInto(minion_info, id) ==
    (IF id.name # << >> THEN ("name" :> id.name) ELSE << >>)
      @@ (IF id.gender # << >> THEN ("gender" :> id.gender) ELSE << >>)
      @@ (IF id.arrival THEN ("arrival_time" :> id.arrival_time) ELSE << >>)
      @@ minion_info

\* min_val <= v <= max_val for the finite float of word w and a range of
\* label_map: the words with the sign bit are the negative floats, ordered by
\* the rest of the word
InRange(w, range) ==
    IF w >= 0 THEN w <= range.vmax ELSE (w + 2147483647) + 1 <= range.vmin

\* the scan keeping the first float in range instead of the last
ScanFirstFloat32(mv, start, end, range) ==
    LET at == { p \in start .. end - 4 : InRange(I32(mv, p), range) }
    IN  IF at = {} THEN << >>
        ELSE (range.key :> I32(mv, CHOOSE p \in at : \A o \in at : p <= o))

\* _scan_best_float32(mv, start, end, min_val, max_val): the last float in
\* range at any offset of [start, end - 4]; None is the empty dict
_scan_best_float32(mv, start, end, range) ==
    LET at == { p \in start .. end - 4 : InRange(I32(mv, p), range) }
    IN  IF at = {} THEN << >>
        ELSE (range.key :> I32(mv, CHOOSE p \in at : \A o \in at : o <= p))

\* one label of the block with its payload [q2, q2 + c_len)
ModifierKey(name_s, mv, q2, c_len, vitals) ==
    IF name_s \in DOMAIN label_map
    THEN _scan_best_float32(mv, q2, q2 + c_len, label_map[name_s]) @@ vitals
    ELSE vitals

\* the walk of _parse_minion_modifiers from offset q, into vitals
RECURSIVE ModifiersWalk(_, _, _, _)
RECURSIVE ModifiersStep(_, _, _, _)
ModifiersWalk(mv, q, beh_end, vitals) ==
    IF q + 8 > beh_end THEN vitals
    ELSE ModifiersStep(mv, beh_end, KeyValueAt(mv, q, beh_end), vitals)

ModifiersStep(mv, beh_end, kv, vitals) ==
    IF kv.stop THEN vitals
    ELSE ModifiersWalk(mv, kv.next, beh_end,
            IF kv.pair THEN ModifierKey(kv.key, mv, kv.start, kv.next - kv.start, vitals)
            ELSE vitals)

\* _parse_minion_modifiers(mv, beh_start, beh_end)
_parse_minion_modifiers(mv, beh_start, beh_end) ==
    ModifiersWalk(mv, beh_start, beh_end, << >>)

\* the MinionModifiers / Modifiers branch, given what the block gave
ModifiersInto(minion_info, vit) ==
    IF DOMAIN vit = {} THEN minion_info
    ELSE ("vitals" :> (vit @@ Get(minion_info, "vitals", << >>))) @@ minion_info

\* the MinionResume branch, given what _parse_minion_resume returned
ResumeInto(minion_info, resume) ==
    LET job == IF resume.currentRole = << >> THEN minion_info
               ELSE setdefault(minion_info, "job", resume.currentRole)
        apt == IF DOMAIN resume.aptitudes = {} THEN job
               ELSE setdefault(job, "aptitudes", resume.aptitudes)
    IN  IF resume.mastered = << >> THEN apt
        ELSE setdefault(apt, "mastered_roles", resume.mastered[Len(resume.mastered)])

\* one behaviour block [beh_start, beh_end) of a Minion instance
DecoderBehavior(minion_info, beh_name, mv, beh_start, beh_end) ==
    CASE beh_name = Txt.MinionIdentity ->
            IdentityInto(minion_info, _parse_minion_identity(mv, beh_start, beh_end))
      [] beh_name = Txt.MinionResume ->
            ResumeInto(minion_info, _parse_minion_resume(mv, beh_start, beh_end))
      [] beh_name \in {Txt.KleiAITraits, Txt.Traits} ->
            TraitsInto(minion_info, StringArray(Slice(mv, beh_start, beh_end), 256))
      [] beh_name \in {Txt.KleiAIEffects, Txt.Effects} ->
            EffectsInto(minion_info, StringArray(Slice(mv, beh_start, beh_end), 512))
      [] beh_name \in {Txt.MinionModifiers, Txt.Modifiers} ->
            ModifiersInto(minion_info, _parse_minion_modifiers(mv, beh_start, beh_end))
      [] beh_name \in {Txt.Accessorizer, Txt.WearableAccessorizer} ->
            AccessorizerInto(minion_info, _scan_klei_strings(mv, beh_start, beh_end, 128))
      [] OTHER -> minion_info
-----------------------------------------------------------------------------
(* The inline decoder of OniSaveParser, where it departs from               *)
(* DuplicantDecoder.                                                        *)

\* The positional fallback of the inline MinionIdentity branch, taken when
\* the entry holds no arrival time: four strings from the start of the block
\* (the third is the gender), then an int32.
PositionalAfter(minion_info, mv, beh_end, gender_s, last) ==
    (IF ~gender_s.none /\ gender_s.s \in {Txt.MALE, Txt.FEMALE, Txt.NB}
        /\ "gender" \notin DOMAIN minion_info
     THEN ("gender" :> gender_s.s) ELSE << >>)
      @@ (IF last.off + 4 <= beh_end /\ I32(mv, last.off) >= 0
          THEN ("arrival_time" :> I32(mv, last.off)) ELSE << >>)
      @@ minion_info

PositionalFrom(minion_info, mv, beh_end, gender_s) ==
    PositionalAfter(minion_info, mv, beh_end, gender_s,
                    _read_klei_string(mv, gender_s.off, beh_end))

PositionalFallback(minion_info, mv, beh_start, beh_end) ==
    IF "arrival_time" \in DOMAIN minion_info THEN minion_info
    ELSE PositionalFrom(minion_info, mv, beh_end,
            _read_klei_string(mv,
                _read_klei_string(mv, _read_klei_string(mv, beh_start, beh_end).off,
                                  beh_end).off,
                beh_end))

\* the inline MinionIdentity branch: the keys are tested against the entry
\* itself, so an arrival time a former block gave counts as held
ParserIdentity(minion_info, mv, beh_start, beh_end) ==
    PositionalFallback(
        IdentityInto(minion_info,
            NameFallback(
                IdentityWalk(mv, beh_start, beh_end,
                    [NoIdentity EXCEPT !.arrival = "arrival_time" \in DOMAIN minion_info,
                                       !.arrival_time = Get(minion_info, "arrival_time", 0)]),
                _scan_klei_strings(mv, beh_start, beh_end, 32))),
        mv, beh_start, beh_end)

\* int(m.group(2)), cut off at 100: every level of max_level lies below
RECURSIVE Level(_, _)
Level(digits, acc) ==
    IF digits = << >> \/ acc >= 100 THEN Min(acc, 100)
    ELSE Level(Tail(digits), acc * 10 + (Head(digits) - 48))

\* re.fullmatch(r"([A-Za-z]+)(\d+)", s)
IsGroupLevel(s) ==
    /\ LettersEnd(s, 1) > 1
    /\ LettersEnd(s, 1) <= Len(s)
    /\ DigitsEnd(s, LettersEnd(s, 1)) = Len(s) + 1

\* the secondary pass on one token: a group of max_level at a level within
\* its range raises the aptitude
Allowed(aptitudes, group_key, level) ==
    IF group_key \in DOMAIN max_level /\ 1 <= level /\ level <= max_level[group_key]
    THEN Raise(aptitudes, group_key, level)
    ELSE aptitudes

TokenInto(aptitudes, s) ==
    IF IsGroupLevel(s)
    THEN Allowed(aptitudes, map_group(SubSeq(s, 1, LettersEnd(s, 1) - 1)),
                 Level(SubSeq(s, LettersEnd(s, 1), Len(s)), 0))
    ELSE aptitudes

\* pass 1: the strings of the block, in order
RECURSIVE StringTokens(_, _)
StringTokens(strings, aptitudes) ==
    IF strings = << >> THEN aptitudes
    ELSE StringTokens(Tail(strings), TokenInto(aptitudes, Head(strings)))

\* the index after the word characters that start at index i of text, and
\* the index of the first word character from i on
WordEnd(text, i) ==
    LET stops == { j \in i .. Len(text) : ~IsWord(text[j]) }
    IN  IF stops = {} THEN Len(text) + 1 ELSE CHOOSE j \in stops : \A k \in stops : j <= k

WordStart(text, i) ==
    LET starts == { j \in i .. Len(text) : IsWord(text[j]) }
    IN  IF starts = {} THEN Len(text) + 1 ELSE CHOOSE j \in starts : \A k \in starts : j <= k

\* pass 2: re.finditer(r"\b([A-Za-z]+)(\d+)\b", text).  Between two \b the
\* pattern matches a whole run of word characters or nothing of it, so the
\* matches are the runs made of letters then digits.
RECURSIVE WordTokens(_, _, _)
RunTokens(text, i, aptitudes) ==
    WordTokens(text, WordEnd(text, i),
               TokenInto(aptitudes, SubSeq(text, i, WordEnd(text, i) - 1)))

WordTokens(text, i, aptitudes) ==
    IF WordStart(text, i) > Len(text) THEN aptitudes
    ELSE RunTokens(text, WordStart(text, i), aptitudes)

\* the hat fallback of the inline MinionResume branch: the letters after the
\* first "hat_role_" of the payload
ResumeHatBase(group) ==
    IF group \in DOMAIN ResumeHatExact THEN ResumeHatExact[group]
    ELSE FirstPrefix(ResumeHatPrefixes, group, << >>)

ResumeHat(minion_info, payload, idx) ==
    IF "job" \in DOMAIN minion_info /\ minion_info["job"] \notin {<< >>, Txt.NoRole}
    THEN minion_info
    ELSE IF idx = -1 THEN minion_info
    ELSE IF ResumeHatBase(Lower(SubSeq(payload, idx + 10,
                LettersEnd(payload, idx + 10) - 1))) = << >>
    THEN minion_info
    ELSE setdefault(minion_info, "job",
            ResumeHatBase(Lower(SubSeq(payload, idx + 10,
                LettersEnd(payload, idx + 10) - 1))))

\* the inline MinionResume branch, given what the key/value walk gave and
\* the aptitudes after the two scans
ParserResumeInto(minion_info, resume, aptitudes) ==
    LET mastered == IF resume.mastered = << >> THEN minion_info
                    ELSE setdefault(minion_info, "mastered_roles", resume.mastered[1])
        job == IF resume.currentRole = << >> THEN mastered
               ELSE setdefault(mastered, "job", resume.currentRole)
    IN  IF DOMAIN aptitudes = {} THEN job ELSE setdefault(job, "aptitudes", aptitudes)

ParserResumeAfter(minion_info, mv, beh_start, beh_end, resume) ==
    ResumeHat(
        ParserResumeInto(minion_info, resume,
            WordTokens(DecodeIgnore(Slice(mv, beh_start, beh_end)), 1,
                StringTokens(_scan_klei_strings(mv, beh_start, beh_end, 256),
                             resume.aptitudes))),
        Slice(mv, beh_start, beh_end),
        Find(Slice(mv, beh_start, beh_end), Txt.hat_role_, 0))

ParserResume(minion_info, mv, beh_start, beh_end, bound) ==
    ParserResumeAfter(minion_info, mv, beh_start, beh_end,
                      ResumeWalk(mv, beh_start, beh_end, NoResume, bound))

\* the string scan of the inline Effects branch, taken when the array gave
\* nothing: strings of at most 64 characters without blank, slash or
\* backslash that hold "_" or match [A-Z][A-Za-z]+
EffectLike(s) ==
    /\ Len(s) <= 64
    /\ \A i \in 1 .. Len(s) : s[i] \notin {32, 47, 92}
    /\ \/ \E i \in 1 .. Len(s) : s[i] = 95
       \/ /\ Len(s) >= 2
          /\ s[1] >= 65 /\ s[1] <= 90
          /\ \A i \in 2 .. Len(s) : IsLetter(s[i])

ParserEffects(minion_info, effects, strings) ==
    EffectsInto(minion_info, IF effects # << >> THEN effects ELSE SelectSeq(strings, EffectLike))

\* the inline MinionModifiers branch: the entry gets its vitals dict first
ParserModifiers(minion_info, mv, beh_start, beh_end) ==
    ("vitals" :> ModifiersWalk(mv, beh_start, beh_end, Get(minion_info, "vitals", << >>)))
      @@ minion_info

\* one behaviour block [beh_start, beh_end) of a Minion instance, inline
ParserBehavior(minion_info, beh_name, mv, beh_start, beh_end, bound) ==
    CASE beh_name = Txt.MinionIdentity ->
            ParserIdentity(minion_info, mv, beh_start, beh_end)
      [] beh_name = Txt.MinionResume ->
            ParserResume(minion_info, mv, beh_start, beh_end, bound)
      [] beh_name \in {Txt.Accessorizer, Txt.WearableAccessorizer} ->
            AccessorizerInto(minion_info, _scan_klei_strings(mv, beh_start, beh_end, 128))
      [] beh_name \in {Txt.KleiAITraits, Txt.Traits} ->
            TraitsInto(minion_info, StringArray(Slice(mv, beh_start, beh_end), 256))
      [] beh_name \in {Txt.KleiAIEffects, Txt.Effects} ->
            ParserEffects(minion_info, StringArray(Slice(mv, beh_start, beh_end), 512),
                          _scan_klei_strings(mv, beh_start, beh_end, 256))
      [] beh_name \in {Txt.MinionModifiers, Txt.Modifiers} ->
            ParserModifiers(minion_info, mv, beh_start, beh_end)
      [] OTHER -> minion_info
-----------------------------------------------------------------------------
(* The walk over the groups of a body, the instances of the Minion group    *)
(* and the behaviour blocks of an instance.  The two decoders walk alike:   *)
(* inline says which one decodes the blocks.  The walk carries the offset   *)
(* p, the entries decoded so far and the flag bound, and in seen what it    *)
(* has framed: for every group, instance and block whose header it read,    *)
(* where the header lay (at), where the content starts, the length and the  *)
(* count the header announced, and where the walk went on (next).           *)

Framed(kind, name, at, start, len, count, info, next) ==
    [kind |-> kind, name |-> name, at |-> at, start |-> start, len |-> len,
     count |-> count, info |-> info, next |-> next]

\* walk after the step that framed something, with the step recorded
Seen(walk, kind, name, at, start, len, count, info) ==
    [walk EXCEPT !.seen = Append(@, Framed(kind, name, at, start, len, count, info, walk.p))]

\* the defaults every entry gets before it is appended
EntryDefaults(minion_info) ==
    setdefault(setdefault(setdefault(setdefault(minion_info,
        "arrival_time", 0), "job", Txt.NoRole), "traits", << >>), "effects", << >>)

\* a block that is neither decoded nor skipped: the walk goes on at its
\* payload
BlockNotSkipped(inline, mv, beh_name, beh_start, beh_end, w) ==
    Seen([p |-> beh_start, info |-> w.info, bound |-> w.bound, seen |-> w.seen],
         "block", beh_name, w.p, beh_start, I32(mv, beh_start - 4), 0, w.info)

\* a block [beh_start, beh_end) named beh_name, decoded into w.info
BehaviorBlock(inline, mv, beh_name, beh_start, beh_end, w) ==
    Seen(IF inline
         THEN [p |-> beh_end,
               info |-> ParserBehavior(w.info, beh_name, mv, beh_start, beh_end, w.bound),
               bound |-> w.bound \/ beh_name = Txt.MinionResume,
               seen |-> w.seen]
         ELSE [p |-> beh_end,
               info |-> DecoderBehavior(w.info, beh_name, mv, beh_start, beh_end),
               bound |-> w.bound,
               seen |-> w.seen],
         "block", beh_name, w.p, beh_start, I32(mv, beh_start - 4), 0, w.info)

\* for _b in range(max(0, behavior_count)), with left blocks to go: a bounds
\* check that fails leaves the loop with p where the reads had taken it
RECURSIVE Behaviors(_, _, _, _)
RECURSIVE BehaviorAt(_, _, _, _, _, _)
Behaviors(inline, mv, left, w) ==
    IF left = 0 \/ w.p + 4 > Len(mv) THEN w
    ELSE IF I32(mv, w.p) < 0 \/ I32(mv, w.p) > Len(mv) - (w.p + 4)
    THEN [w EXCEPT !.p = w.p + 4]
    ELSE IF w.p + 4 + I32(mv, w.p) + 4 > Len(mv)
    THEN [w EXCEPT !.p = w.p + 4 + I32(mv, w.p)]
    ELSE BehaviorAt(inline, mv, left, w,
                    DecodeIgnore(Slice(mv, w.p + 4, w.p + 4 + I32(mv, w.p))),
                    w.p + 4 + I32(mv, w.p) + 4)

BehaviorAt(inline, mv, left, w, beh_name, beh_start) ==
    IF I32(mv, beh_start - 4) > Len(mv) - beh_start
    THEN [w EXCEPT !.p = beh_start]
    ELSE Behaviors(inline, mv, left - 1,
            BehaviorBlock(inline, mv, beh_name, beh_start,
                          beh_start + Max(0, I32(mv, beh_start - 4)), w))

\* the entry of one instance once its blocks are walked
InstanceDone(minions, w) ==
    [p |-> w.p, minions |-> Append(minions, EntryDefaults(w.info)), bound |-> w.bound,
     seen |-> w.seen]

\* for _i in range(instance_count), with left instances to go: position,
\* rotation, scale and the folder byte, then the behaviour count
RECURSIVE Instances(_, _, _, _)
Instances(inline, mv, left, g) ==
    IF left = 0 \/ g.p + (3 + 4 + 3) * 4 + 1 + 4 > Len(mv) THEN g
    ELSE Instances(inline, mv, left - 1,
            Seen(InstanceDone(g.minions,
                    Behaviors(inline, mv, Max(0, I32(mv, g.p + 41)),
                        [p |-> g.p + 45,
                         info |-> ("x" :> I32(mv, g.p)) @@ ("y" :> I32(mv, g.p + 4))
                                    @@ ("z" :> I32(mv, g.p + 8)),
                         bound |-> g.bound,
                         seen |-> g.seen])),
                 "instance", << >>, g.p, g.p + 45, 0, I32(mv, g.p + 41), << >>))

\* for _ in range(max(0, group_count)), with left groups to go.  A Minion
\* group with instances is decoded and the walk goes on where the decoding
\* stopped; any other group is skipped by its data_length.
RECURSIVE Groups(_, _, _, _)
RECURSIVE GroupAt(_, _, _, _, _, _)
Groups(inline, mv, left, g) ==
    IF left = 0 \/ g.p + 4 > Len(mv) THEN g
    ELSE IF I32(mv, g.p) < 0 \/ I32(mv, g.p) > Len(mv) - (g.p + 4) THEN g
    ELSE IF g.p + 4 + I32(mv, g.p) + 8 > Len(mv) THEN g
    ELSE GroupAt(inline, mv, left, g,
                 DecodeIgnore(Slice(mv, g.p + 4, g.p + 4 + I32(mv, g.p))),
                 g.p + 4 + I32(mv, g.p) + 8)

GroupAt(inline, mv, left, g, name, group_data_start) ==
    IF name = Txt.Minion /\ I32(mv, group_data_start - 8) > 0
    THEN Groups(inline, mv, left - 1,
                Seen(Instances(inline, mv, I32(mv, group_data_start - 8),
                               [g EXCEPT !.p = group_data_start]),
                     "group", name, g.p, group_data_start, I32(mv, group_data_start - 4),
                     I32(mv, group_data_start - 8), << >>))
    ELSE IF I32(mv, group_data_start - 4) > Len(mv) - group_data_start THEN g
    ELSE Groups(inline, mv, left - 1,
                Seen([g EXCEPT !.p = group_data_start + Max(0, I32(mv, group_data_start - 4))],
                     "group", name, g.p, group_data_start, I32(mv, group_data_start - 4),
                     I32(mv, group_data_start - 8), << >>))

\* the walk from the KSAV marker: the two version words, the group count,
\* then the groups
GroupWalk(inline, body, ksav) ==
    IF ksav = -1 \/ ksav + 12 > Len(body) \/ ksav + 16 > Len(body)
    THEN [p |-> 0, minions |-> << >>, bound |-> ~inline, seen |-> << >>]
    ELSE Groups(inline, body, Max(0, I32(body, ksav + 12)),
                [p |-> ksav + 16, minions |-> << >>, bound |-> ~inline, seen |-> << >>])

\* what the walk returns: the entries
MinionWalk(inline, body, ksav) == GroupWalk(inline, body, ksav).minions

\* DuplicantDecoder.extract_minion_details_from_body(body)
extract_minion_details_from_body(body) == MinionWalk(FALSE, body, Find(body, Txt.KSAV, 0))

\* OniSaveParser._extract_minion_details_from_body(body)
_extract_minion_details_from_body(body) == MinionWalk(TRUE, body, Find(body, Txt.KSAV, 0))
-----------------------------------------------------------------------------
(* KSAVGroupCounter (ksav_index.py): the instance count of every group.     *)

\* the loop of extract_object_group_counts with left groups to go, from
\* offset p: the count is stored before the payload length is looked at
RECURSIVE GroupCounts(_, _, _, _)
GroupCountAt(body, left, q, counts) ==
    IF I32(body, q + 4) < 0 \/ q + 8 + I32(body, q + 4) > Len(body) THEN counts
    ELSE GroupCounts(body, left - 1, q + 8 + I32(body, q + 4), counts)

GroupCounts(body, left, p, counts) ==
    IF left = 0 \/ p + 4 > Len(body) THEN counts
    ELSE IF I32(body, p) < 0 \/ p + 4 + I32(body, p) > Len(body) THEN counts
    ELSE IF p + 4 + I32(body, p) + 8 > Len(body) THEN counts
    ELSE GroupCountAt(body, left, p + 4 + I32(body, p),
            (DecodeIgnore(Slice(body, p + 4, p + 4 + I32(body, p)))
                :> I32(body, p + 4 + I32(body, p))) @@ counts)

\* extract_object_group_counts(body): group name -> instance count
extract_object_group_counts(body) ==
    IF body = << >> \/ Find(body, Txt.KSAV, 0) = -1 THEN << >>
    ELSE IF Find(body, Txt.KSAV, 0) + 16 > Len(body) THEN << >>
    ELSE IF I32(body, Find(body, Txt.KSAV, 0) + 12) < 0 THEN << >>
    ELSE GroupCounts(body, I32(body, Find(body, Txt.KSAV, 0) + 12),
                     Find(body, Txt.KSAV, 0) + 16, << >>)

\* the loop of summarize with left groups to go, from offset p: a negative
\* data_length moves p by nothing and the walk goes on
RECURSIVE SummaryWalk(_, _, _, _)
SummaryAt(body, left, q, total) ==
    IF q + 8 + Max(0, I32(body, q + 4)) > Len(body) THEN total
    ELSE SummaryWalk(body, left - 1, q + 8 + Max(0, I32(body, q + 4)), total)

SummaryWalk(body, left, p, total) ==
    IF left = 0 \/ p + 4 > Len(body) THEN total
    ELSE IF I32(body, p) < 0 \/ p + 4 + I32(body, p) > Len(body) THEN total
    ELSE IF p + 4 + I32(body, p) + 8 > Len(body) THEN total
    ELSE SummaryAt(body, left, p + 4 + I32(body, p),
                   total + I32(body, p + 4 + I32(body, p)))

\* summarize once the marker is found at pos with 12 bytes from it: the
\* three words after the marker are read unguarded, and the third does not
\* fit when fewer than 16 bytes are left (struct.error)
SummaryFrom(body, pos) ==
    IF pos + 16 > Len(body)
    THEN [raised |-> TRUE, group_count |-> 0, total_instances |-> 0]
    ELSE [raised |-> FALSE,
          group_count |-> I32(body, pos + 12),
          total_instances |-> SummaryWalk(body, Max(0, I32(body, pos + 12)), pos + 16, 0)]

\* KSAVGroupCounter.summarize(body)
summarize(body) ==
    IF body = << >> \/ Find(body, Txt.KSAV, 0) = -1 \/ Find(body, Txt.KSAV, 0) + 12 > Len(body)
    THEN [raised |-> FALSE, group_count |-> 0, total_instances |-> 0]
    ELSE SummaryFrom(body, Find(body, Txt.KSAV, 0))
-----------------------------------------------------------------------------
(* Bodies as the game lays them out, built from what a duplicant holds.     *)

RECURSIVE Concat(_)
Concat(seqs) == IF seqs = << >> THEN << >> ELSE Head(seqs) \o Concat(Tail(seqs))

\* a length-prefixed string, as _read_klei_string reads it
KleiString(s) == LE32(Len(s)) \o s

\* a key with its length-prefixed payload, as the key/value walks read it
KeyValue(key, payload) == KleiString(key) \o LE32(Len(payload)) \o payload

\* a behaviour block of an instance: name, payload length, payload
Behavior(beh_name, payload) == KleiString(beh_name) \o LE32(Len(payload)) \o payload

\* an instance: position (three float32 words), 29 bytes of rotation, scale
\* and folder, the behaviour count, the behaviour blocks
Instance(x, y, z, behaviors) ==
    LE32(x) \o LE32(y) \o LE32(z) \o [i \in 1 .. 29 |-> 0]
      \o LE32(Len(behaviors)) \o Concat(behaviors)

\* a group: name, instance count, data length, the instances
Group(name, instance_count, data) ==
    KleiString(name) \o LE32(instance_count) \o LE32(Len(data)) \o data

\* the body: 'KSAV', the two version words, the group count, the groups
Body(groups) == Txt.KSAV \o LE32(7) \o LE32(36) \o LE32(Len(groups)) \o Concat(groups)

\* a string, and a list of strings, the duplicant does not hold (no byte is
\* negative)
NoBytes == << -1 >>
NoList == << NoBytes >>

\* What a duplicant holds: the role of its resume, the hat it wears and
\* whether the accessorizer comes before the resume, its aptitudes (group,
\* the bytes of the level), text under another key of the resume, its traits
\* and effects, its modifiers (label, payload).
Duplicant ==
    [role |-> NoBytes, hat |-> NoBytes, hat_first |-> FALSE, apts |-> << >>,
     note |-> NoBytes, traits |-> NoList, effects |-> NoList, modifiers |-> NoList]

ResumePayload(d) ==
    (IF d.role = NoBytes THEN << >> ELSE KeyValue(Txt.currentRole, KleiString(d.role)))
      \o (IF d.apts = << >> THEN << >>
          ELSE KeyValue(Txt.AptitudeBySkillGroup,
                        LE32(Len(d.apts))
                          \o Concat([i \in 1 .. Len(d.apts) |->
                                        KleiString(d.apts[i][1]) \o d.apts[i][2]])))
      \o (IF d.note = NoBytes THEN << >> ELSE KeyValue(Txt.other, d.note))

StringsPayload(strings) ==
    LE32(Len(strings)) \o Concat([i \in 1 .. Len(strings) |-> KleiString(strings[i])])

ModifiersPayload(modifiers) ==
    Concat([i \in 1 .. Len(modifiers) |-> KeyValue(modifiers[i][1], modifiers[i][2])])

HatBlock(d) ==
    IF d.hat = NoBytes THEN << >>
    ELSE << Behavior(Txt.Accessorizer, KleiString(d.hat)) >>

DuplicantBehaviors(d) ==
    (IF d.hat_first THEN HatBlock(d) ELSE << >>)
      \o (IF d.role = NoBytes /\ d.apts = << >> /\ d.note = NoBytes THEN << >>
          ELSE << Behavior(Txt.MinionResume, ResumePayload(d)) >>)
      \o (IF d.hat_first THEN << >> ELSE HatBlock(d))
      \o (IF d.traits = NoList THEN << >>
          ELSE << Behavior(Txt.KleiAITraits, StringsPayload(d.traits)) >>)
      \o (IF d.effects = NoList THEN << >>
          ELSE << Behavior(Txt.KleiAIEffects, StringsPayload(d.effects)) >>)
      \o (IF d.modifiers = NoList THEN << >>
          ELSE << Behavior(Txt.MinionModifiers, ModifiersPayload(d.modifiers)) >>)

MinionGroup(ds) ==
    Group(Txt.Minion, Len(ds),
          Concat([i \in 1 .. Len(ds) |-> Instance(FloatWord.one, FloatWord.two, 0, DuplicantBehaviors(ds[i]))]))

\* the body of a colony with the duplicants ds
MinionBody(ds) == Body(<< MinionGroup(ds) >>)

Roles == { NoBytes, Txt.Miner, Txt.NoRole }
Hats == { NoBytes, Txt.hat_building3, Txt.hat_9 }

AptitudeArrays ==
    { << << Txt.Mining, LE32(2) >> >>,
      << << Txt.Mining, LE32(7) >> >>,
      << << Txt.Operating, LE32(1) >> >>,
      << << Txt.Research, LE32(FloatWord.two_and_half) >> >>,
      << << Txt.Art, LE32(0) >> >>,
      << << Txt.mining, LE32(1) >>, << Txt.Mining, LE32(3) >> >> }

TraitArrays ==
    { NoList, << >>, << Txt.Foodie >>, << Txt.Zzz >>,
      << Txt.Foodie, Txt.Zzz, Txt.DiversLung >>, << Txt.Sleep, Txt.Anemic >> }

EffectArrays ==
    { NoList, << >>, << Txt.Sleep >>, << Txt.Zzz >>,
      << Txt.WellFed, Txt.Zzz, Txt.Sleep >>, << Txt.Foodie >> }

RoleDuplicants ==
    { [Duplicant EXCEPT !.role = r, !.hat = h, !.hat_first = f] :
          r \in Roles, h \in Hats \ {NoBytes}, f \in BOOLEAN }
      \cup { [Duplicant EXCEPT !.role = r] : r \in Roles }

AptitudeDuplicants ==
    { [Duplicant EXCEPT !.role = Txt.Miner, !.apts = a] : a \in AptitudeArrays }
      \cup { [Duplicant EXCEPT !.note = n] : n \in { Txt.Mining9_Cooking2, Txt.Building3 } }

ListDuplicants ==
    { [Duplicant EXCEPT !.traits = t, !.effects = e] : t \in TraitArrays, e \in EffectArrays }

\* modifiers: one float in range, two of which the last is in range or out
\* of it, none in range (too large, not a number, too short), a negative
\* one, a label outside label_map, two labels
ModifierArrays ==
    { << >>,
      << << Txt.Health, LE32(FloatWord.fifty) >> >>,
      << << Txt.Stress, LE32(FloatWord.fifty) \o LE32(FloatWord.twenty_five) >> >>,
      << << Txt.Stress, LE32(FloatWord.fifty) \o LE32(FloatWord.two_thousand) >> >>,
      << << Txt.Stress, LE32(FloatWord.two_thousand) >> >>,
      << << Txt.Health, LE32(FloatWord.nan) >> >>,
      << << Txt.Health, << 0, 0, 72 >> >> >>,
      << << Txt.Decor, LE32(FloatWord.minus_five) >> >>,
      << << Txt.Stress, LE32(FloatWord.minus_five) >> >>,
      << << Txt.other, LE32(FloatWord.fifty) >> >>,
      << << Txt.Health, LE32(FloatWord.fifty) >>, << Txt.other, LE32(FloatWord.one) >>,
         << Txt.Decor, LE32(FloatWord.minus_five) \o LE32(FloatWord.two) >> >> }

ModifierDuplicants == { [Duplicant EXCEPT !.modifiers = m] : m \in ModifierArrays }

\* the colonies: one duplicant of each kind, and two with aptitudes
Colonies ==
    { << d >> : d \in RoleDuplicants \cup AptitudeDuplicants \cup ListDuplicants
                       \cup ModifierDuplicants }
      \cup { << a, b >> : a \in { [Duplicant EXCEPT !.role = Txt.Miner] },
                         b \in AptitudeDuplicants }
      \cup { << a, a >> : a \in AptitudeDuplicants }

\* bodies that hold no colony, groups around the Minion group, a group that
\* announces more instances than it holds, a body cut short
OddBodies ==
    { << >>, << 1, 2, 3 >>, Body(<< >>),
      Body(<< Group(Txt.Tile, 2, << 0, 0 >>) >>),
      Body(<< Group(Txt.Tile, 2, << 0, 0 >>), MinionGroup(<< Duplicant >>),
              Group(Txt.Tile, 0, << >>) >>),
      Body(<< Group(Txt.Minion, 2, Instance(FloatWord.one, FloatWord.two, 0, << >>)) >>),
      Slice(MinionBody(<< [Duplicant EXCEPT !.role = Txt.Miner, !.traits = << Txt.Foodie >>] >>),
            0, 90) }

Bodies == { MinionBody(ds) : ds \in Colonies } \cup OddBodies
-----------------------------------------------------------------------------
(* CompressedBlocksScanner (compressed_blocks.py).  A return value carries  *)
(* raised: TRUE when the call ends in an exception instead.                 *)

\* struct.unpack_from("<I", mv, p): struct.error when fewer than four bytes
\* lie at p
unpack_from(data, p) ==
    [ok |-> p + 4 <= Len(data), n |-> IF p + 4 <= Len(data) THEN U32(data, p) ELSE 0]

\* parse_header_raw from the header version on: the compression flag from
\* version 1 on, then the end of the header JSON, 0 when it overruns
HeaderRawFrom(data, header_size, header_version) ==
    IF ~header_size.ok \/ ~header_version.ok
    THEN [raised |-> TRUE, p_end |-> 0, is_compressed |-> FALSE]
    ELSE IF header_version.n >= 1 /\ 16 > Len(data)
    THEN [raised |-> FALSE, p_end |-> 0, is_compressed |-> FALSE]
    ELSE [raised |-> FALSE,
          p_end |-> IF (IF header_version.n >= 1 THEN 16 ELSE 12) + header_size.n > Len(data)
                    THEN 0
                    ELSE (IF header_version.n >= 1 THEN 16 ELSE 12) + header_size.n,
          is_compressed |-> header_version.n >= 1 /\ U32(data, 12) # 0]

\* the header read whatever the length of the data
HeaderRawUnchecked(data) ==
    HeaderRawFrom(data, unpack_from(data, 4), unpack_from(data, 8))

\* the scan started at the first byte of the data
HeaderRawStart(data) == [raised |-> FALSE, p_end |-> 0, is_compressed |-> FALSE]

\* CompressedBlocksScanner.parse_header_raw(data)
parse_header_raw(data) ==
    IF Len(data) < 12 THEN [raised |-> FALSE, p_end |-> 0, is_compressed |-> FALSE]
    ELSE HeaderRawFrom(data, unpack_from(data, 4), unpack_from(data, 8))

\* the offsets from start_after_header on where one of the three signatures
\* starts: sorted(set(candidates)) as a set
Candidates(data, start_after_header) ==
    { pos \in start_after_header .. (Len(data) - 2) :
          Slice(data, pos, pos + 2) \in ZlibSignatures }

\* CompressedBlocksScanner.decompress_body_block(data): found = FALSE is None
BodyBlockAfter(data, header) ==
    IF header.raised THEN [raised |-> TRUE, found |-> FALSE, body |-> << >>]
    ELSE [raised |-> FALSE,
          found |-> FirstKsavBlock(data, Candidates(data, header.p_end)).found,
          body |-> FirstKsavBlock(data, Candidates(data, header.p_end)).body]

decompress_body_block(data) == BodyBlockAfter(data, parse_header_raw(data))

-----------------------------------------------------------------------------
(* BinaryReader: the reads over read_bytes, skip_bytes.                    *)

\* read_int32(): [ok, n, err, rd]
read_int32(rd) ==
    [ok |-> read_bytes(rd, 4).ok,
     n |-> IF read_bytes(rd, 4).ok THEN I32(read_bytes(rd, 4).bytes, 0) ELSE 0,
     err |-> read_bytes(rd, 4).err,
     rd |-> read_bytes(rd, 4).rd]

\* read_string() once the length prefix is read: [ok, exc, s, err, rd]
StringBody(rd, length) ==
    IF length < 0
    THEN [ok |-> FALSE, exc |-> "ValueError", s |-> << >>,
          err |-> Txt.m_invalid_string_length \o FormatInt(length), rd |-> rd]
    ELSE IF length = 0
    THEN [ok |-> TRUE, exc |-> "", s |-> << >>, err |-> << >>, rd |-> rd]
    ELSE IF ~read_bytes(rd, length).ok
    THEN [ok |-> FALSE, exc |-> "EOFError", s |-> << >>,
          err |-> read_bytes(rd, length).err, rd |-> read_bytes(rd, length).rd]
    ELSE IF ~IsUtf8(read_bytes(rd, length).bytes)
    THEN [ok |-> FALSE, exc |-> "UnicodeDecodeError", s |-> << >>,
          err |-> Txt.e_unicode, rd |-> read_bytes(rd, length).rd]
    ELSE [ok |-> TRUE, exc |-> "", s |-> read_bytes(rd, length).bytes, err |-> << >>,
          rd |-> read_bytes(rd, length).rd]

\* read_string(): a length-prefixed UTF-8 string
read_string(rd) ==
    IF ~read_int32(rd).ok
    THEN [ok |-> FALSE, exc |-> "EOFError", s |-> << >>, err |-> read_int32(rd).err,
          rd |-> read_int32(rd).rd]
    ELSE StringBody(read_int32(rd).rd, read_int32(rd).n)

\* skip_bytes(count): BytesIO.seek(count, 1) stops at 0 and goes past the
\* end, and raises nothing; position takes the count as it is
skip_bytes(rd, count) ==
    [ok |-> TRUE, err |-> << >>,
     rd |-> [rd EXCEPT !.pos = Max(0, rd.pos + count), !.position = rd.position + count]]

\* read_array(self.read_int8) once the count is read: the elements are read
\* one byte at a time until the count is reached or a read fails
RECURSIVE ArrayElements(_, _, _)
ArrayElements(rd, left, elements) ==
    IF left = 0
    THEN [ok |-> TRUE, exc |-> "", s |-> elements, err |-> << >>, rd |-> rd]
    ELSE IF ~read_bytes(rd, 1).ok
    THEN [ok |-> FALSE, exc |-> "EOFError", s |-> << >>,
          err |-> read_bytes(rd, 1).err, rd |-> read_bytes(rd, 1).rd]
    ELSE ArrayElements(read_bytes(rd, 1).rd, left - 1,
                       elements \o read_bytes(rd, 1).bytes)

\* read_array(element_reader) with read_int8 as the reader: [ok, exc, s, err, rd]
read_array(rd) ==
    IF ~read_int32(rd).ok
    THEN [ok |-> FALSE, exc |-> "EOFError", s |-> << >>, err |-> read_int32(rd).err,
          rd |-> read_int32(rd).rd]
    ELSE IF read_int32(rd).n < 0
    THEN [ok |-> FALSE, exc |-> "ValueError", s |-> << >>,
          err |-> Txt.m_invalid_array_count \o FormatInt(read_int32(rd).n),
          rd |-> read_int32(rd).rd]
    ELSE ArrayElements(read_int32(rd).rd, read_int32(rd).n, << >>)

\* self.stream.read(): what is left of the stream, which is then at its end
\* (a stream sought past the end stays where it is); position is not moved
ReadToEnd(rd) ==
    [ok |-> TRUE, bytes |-> Slice(rd.data, rd.pos, Len(rd.data)), err |-> << >>,
     rd |-> [rd EXCEPT !.pos = Max(rd.pos, Len(rd.data))]]

\* decompress_zlib once the compressed data is read: [ok, exc, err, rd, out];
\* out is the data of the reader returned, err the message without what zlib
\* adds to it
Decompressed(read) ==
    IF ~read.ok
    THEN [ok |-> FALSE, exc |-> "EOFError", err |-> read.err, rd |-> read.rd, out |-> << >>]
    ELSE IF ~zlib_decompress(read.bytes).ok
    THEN [ok |-> FALSE, exc |-> "ValueError", err |-> Txt.m_zlib_failed, rd |-> read.rd,
          out |-> << >>]
    ELSE [ok |-> TRUE, exc |-> "", err |-> << >>, rd |-> read.rd,
          out |-> zlib_decompress(read.bytes).out]

\* decompress_zlib(compressed_size); to_end is compressed_size = None
decompress_zlib(rd, to_end, compressed_size) ==
    Decompressed(IF to_end THEN ReadToEnd(rd) ELSE read_bytes(rd, compressed_size))

-----------------------------------------------------------------------------
(* MetadataBuilder (metadata_builder.py).                                   *)

\* bytes.hex(): two lowercase digits for every byte
HexDigit(n) == IF n < 10 THEN 48 + n ELSE 87 + n
Hex(b) == [i \in 1 .. 2 * Len(b) |->
              HexDigit(IF i % 2 = 1 THEN b[(i + 1) \div 2] \div 16 ELSE b[i \div 2] % 16)]

\* a xor b for two numbers of w bits, w a power of two: the low half of the
\* bits and the high half
RECURSIVE Xor(_, _, _)
Xor(a, b, w) ==
    IF w = 1 THEN (a + b) % 2
    ELSE Xor(a % (2 ^ (w \div 2)), b % (2 ^ (w \div 2)), w \div 2)
           + (2 ^ (w \div 2)) * Xor(a \div (2 ^ (w \div 2)), b \div (2 ^ (w \div 2)), w \div 2)

\* binascii.crc32 with the register as its high and its low 16 bits: one
\* bit shifted out, under the reflected polynomial EDB88320
CrcShift(crc) ==
    IF crc[2] % 2 = 1
    THEN << Xor(crc[1] \div 2, 60856, 16), Xor((crc[2] \div 2) + 32768 * (crc[1] % 2), 33568, 16) >>
    ELSE << crc[1] \div 2, (crc[2] \div 2) + 32768 * (crc[1] % 2) >>

\* n bits shifted out, one after the other
RECURSIVE CrcShifts(_, _)
CrcShifts(crc, n) ==
    IF n = 0 \/ crc[1] + crc[2] < 0 THEN crc ELSE CrcShifts(CrcShift(crc), n - 1)

\* one byte taken into the register
CrcByte(crc, c) == CrcShifts(<< crc[1], Xor(crc[2], c, 16) >>, 8)

\* the register after the bytes data[lo .. hi], taken in order. The range
\* is halved, and the register is evaluated before the bytes are taken in
\* (TLC hands arguments on unevaluated, and a chain of pending registers
\* grows as deep as the buffer is long)
RECURSIVE CrcBytes(_, _, _, _)
CrcBytes(data, lo, hi, crc) ==
    IF lo > hi \/ crc[1] + crc[2] < 0 THEN crc
    ELSE IF lo = hi THEN CrcByte(crc, data[lo])
    ELSE CrcBytes(data, ((lo + hi) \div 2) + 1, hi,
                  CrcBytes(data, lo, (lo + hi) \div 2, crc))

\* format(n, "04x") for the two halves of the inverted register
CrcHex(crc) ==
    [k \in 1 .. 8 |->
        HexDigit(((65535 - crc[(k + 3) \div 4]) \div (16 ^ ((8 - k) % 4))) % 16)]

\* format(binascii.crc32(data) & 0xFFFFFFFF, "08x")
crc32_hex(data) == CrcHex(CrcBytes(data, 1, Len(data), << 65535, 65535 >>))

\* SaveBlockInfo of the stream at abs_pos, which inflates to decompressed
SaveBlockInfo(file_bytes, abs_pos, decompressed) ==
    [offset |-> abs_pos,
     header |-> Hex(Slice(file_bytes, abs_pos, abs_pos + 10)),
     compressed_size |-> Len(file_bytes) - abs_pos,
     decompressed_size |-> Len(decompressed),
     crc32 |-> crc32_hex(decompressed)]

\* the elements of a set of offsets in ascending order
RECURSIVE Ascending(_)
Ascending(S) ==
    IF S = {} THEN << >>
    ELSE << CHOOSE p \in S : \A q \in S : p <= q >>
           \o Ascending(S \ { CHOOSE p \in S : \A q \in S : p <= q })

\* the offsets from start_after_header on where sig starts and the stream
\* inflates
Inflating(file_bytes, start_after_header, sig) ==
    { pos \in start_after_header .. (Len(file_bytes) - 2) :
          /\ Slice(file_bytes, pos, pos + 2) = sig
          /\ zlib_decompress(Slice(file_bytes, pos, Len(file_bytes))).ok }

\* the blocks one signature adds: search.find from idx = pos + 1 on
BlocksAt(file_bytes, offsets) ==
    [i \in 1 .. Len(offsets) |->
        SaveBlockInfo(file_bytes, offsets[i],
                      zlib_decompress(Slice(file_bytes, offsets[i], Len(file_bytes))).out)]

\* the blocks of the three signatures in the order of the loop; no offset
\* is found under two signatures, so seen holds none back
Blocks(file_bytes, start_after_header) ==
    BlocksAt(file_bytes, Ascending(Inflating(file_bytes, start_after_header, << 120, 156 >>)))
      \o BlocksAt(file_bytes, Ascending(Inflating(file_bytes, start_after_header, << 120, 218 >>)))
      \o BlocksAt(file_bytes, Ascending(Inflating(file_bytes, start_after_header, << 120, 1 >>)))

\* the summary of the body: cached_body or decompress_body_block or b""
SummaryOfBody(blocks, body) ==
    IF body = << >>
    THEN [raised |-> FALSE, blocks |-> blocks,
          ksav_summary |-> [group_count |-> 0, total_instances |-> 0]]
    ELSE IF summarize(body).raised
    THEN [raised |-> TRUE, blocks |-> << >>,
          ksav_summary |-> [group_count |-> 0, total_instances |-> 0]]
    ELSE [raised |-> FALSE, blocks |-> blocks,
          ksav_summary |-> [group_count |-> summarize(body).group_count,
                            total_instances |-> summarize(body).total_instances]]

\* MetadataBuilder.build(file_bytes, cached_body); cached_body << >> is None
\* or b""
build(file_bytes, cached_body) ==
    IF file_bytes = << >>
    THEN [raised |-> FALSE, blocks |-> << >>,
          ksav_summary |-> [group_count |-> 0, total_instances |-> 0]]
    ELSE SummaryOfBody(Blocks(file_bytes, parse_header_raw(file_bytes).p_end),
                       IF cached_body # << >> THEN cached_body
                       ELSE decompress_body_block(file_bytes).body)

\* extract_minion_details(file_path): [] when the file cannot be read or no
\* body is found
extract_minion_details(f) ==
    IF ~f.exists THEN << >>
    ELSE IF _decompress_body_block(f.data).body = << >> THEN << >>
    ELSE _extract_minion_details_from_body(_decompress_body_block(f.data).body)

\* parse_save_file once _parse_save_data returned or raised sd
ParsedFile(f, sd) ==
    IF ~sd.ok
    THEN [result |-> [ParseResult EXCEPT !.error_message = sd.err,
                                         !.warnings = sd.warnings],
          log |-> sd.log \o << LogRecord("ERROR", Txt.m_error_parsing \o sd.err) >>,
          lgi |-> sd.lgi]
    ELSE [result |-> [ParseResult EXCEPT
                        !.success = TRUE, !.save_game = sd.save_game,
                        !.warnings = sd.warnings,
                        !.entities = ("duplicants" :> extract_minion_details(f))],
          log |-> sd.log, lgi |-> sd.lgi]

\* parse_save_file(file_path): [result, log, lgi]
parse_save_file(f, lgi) ==
    IF ~f.exists
    THEN [result |-> [ParseResult EXCEPT !.error_message = Txt.m_not_found \o Txt.path],
          log |-> << >>, lgi |-> lgi]
    ELSE ParsedFile(f, _parse_save_data(f.data, lgi))
-----------------------------------------------------------------------------
(* The section documents: data_extractor.py and the section wrapper of      *)
(* save_file_data_extractor.py.                                             *)

\* a float, kept as the word of its float32
PyFloat(w) == [t |-> "float", n |-> w, s |-> << >>]

\* entry.get(key) for a str: None when the entry has none
StrOrNone(entry, key) == IF key \in DOMAIN entry THEN PyStr(entry[key]) ELSE PyNone

\* vitals.get(key)
VitalOrNone(vitals, key) == IF key \in DOMAIN vitals THEN PyFloat(vitals[key]) ELSE PyNone

\* the vitals of the contract, and those of the section wrapper
ContractVitals ==
    { "calories", "health", "stress", "stamina", "decor", "temperature", "breath",
      "bladder", "immune_level", "toxicity", "radiation_balance", "morale" }

SectionVitals == ContractVitals \ { "morale" }

\* float(v or 0.0) for the float of word v: -0.0 is falsy
FloatOrZero(v) == IF v = 0 \/ v = FloatWord.minus_zero THEN 0 ELSE v

\* entry.get("job", "NoRole") or "NoRole"
RoleOf(entry) ==
    IF "job" \in DOMAIN entry /\ entry["job"] # << >> THEN entry["job"] ELSE Txt.NoRole

\* _map_minion_entry(entry)
_map_minion_entry(entry) ==
    [identity |-> [name |-> StrOrNone(entry, "name"),
                   gender |-> StrOrNone(entry, "gender"),
                   arrival_time |-> Get(entry, "arrival_time", 0)],
     role |-> RoleOf(entry),
     vitals |-> [k \in ContractVitals |-> VitalOrNone(Get(entry, "vitals", << >>), k)],
     traits |-> Get(entry, "traits", << >>),
     effects |-> Get(entry, "effects", << >>),
     aptitudes |-> Get(entry, "aptitudes", << >>),
     position |-> [x |-> FloatOrZero(Get(entry, "x", 0)),
                   y |-> FloatOrZero(Get(entry, "y", 0)),
                   z |-> FloatOrZero(Get(entry, "z", 0))]]

\* to_canonical(m) of the section wrapper
to_canonical(m) ==
    [identity |-> [name |-> StrOrNone(m, "name"),
                   gender |-> StrOrNone(m, "gender"),
                   arrival_time |-> Get(m, "arrival_time", 0)],
     role |-> RoleOf(m),
     vitals |-> [k \in SectionVitals |-> VitalOrNone(Get(m, "vitals", << >>), k)],
     aptitudes |-> Get(m, "aptitudes", << >>),
     traits |-> Get(m, "traits", << >>),
     effects |-> Get(m, "effects", << >>),
     position |-> [x |-> Get(m, "x", 0), y |-> Get(m, "y", 0), z |-> Get(m, "z", 0)]]

\* compute_histograms(sim_blob, width, height)
compute_histograms ==
    [elements |-> << >>, temperatures |-> << >>, diseases |-> << >>, radiation |-> << >>]

\* compute_breathable_percent(histograms, total_cells)
compute_breathable_percent == PyNone

\* isinstance(v, dict) for a value of the entities: a dict is a function
\* from its keys, None is PyNone
IsDict(v) == "t" \notin DOMAIN v

\* width * height when both are positive, 0 otherwise
CellCount(world_width, world_height) ==
    IF world_width > 0 /\ world_height > 0 THEN world_width * world_height ELSE 0

\* the summary extract builds when the entities bring none
WorldGridSummary(world_width, world_height, warnings) ==
    [width |-> world_width, height |-> world_height,
     cell_count |-> CellCount(world_width, world_height),
     histograms |-> compute_histograms,
     breathable_percent |-> compute_breathable_percent,
     warnings |-> warnings]

\* the six wgs.setdefault(...) of extract
SummaryDefaults(wgs, world_width, world_height) ==
    wgs @@ [width |-> world_width, height |-> world_height,
            cell_count |-> CellCount(world_width, world_height),
            histograms |-> << >>, breathable_percent |-> PyNone, warnings |-> << >>]

\* the world_grid_summary of extract
SummaryOf(entities, world_width, world_height) ==
    IF "world_grid_summary" \in DOMAIN entities /\ IsDict(entities["world_grid_summary"])
    THEN SummaryDefaults(entities["world_grid_summary"], world_width, world_height)
    ELSE SummaryDefaults(WorldGridSummary(world_width, world_height, << >>),
                         world_width, world_height)

\* the object_group_counts of extract: the numeric counts, as int
GroupCountsOf(entities) ==
    LET counts == Get(entities, "object_group_counts", << >>)
    IN  [k \in { g \in DOMAIN counts : IsNumber(counts[g]) } |-> counts[k].n]

\* the duplicants section of extract, count being int(num_duplicants or
\* len(list)): [ok, section]
DuplicantsOf(header, duplicants_list) ==
    [ok |-> ToInt(PyOr(header.num_duplicants, PyInt(Len(duplicants_list)))).ok,
     section |-> [count |-> ToInt(PyOr(header.num_duplicants,
                                       PyInt(Len(duplicants_list)))).n,
                  list |-> duplicants_list]]

\* the metadata of extract: [ok, section]; int() raises on a count that is
\* no number
MetadataOf(save, game_info) ==
    [ok |-> ToInt(PyOr(save.header.num_cycles, PyInt(0))).ok
              /\ ToInt(PyOr(save.header.num_duplicants, PyInt(0))).ok,
     section |-> [version |-> VersionText(save.version),
                  cycles |-> ToInt(PyOr(save.header.num_cycles, PyInt(0))).n,
                  duplicant_count |-> ToInt(PyOr(save.header.num_duplicants, PyInt(0))).n,
                  base_name |-> PyOr(Get(game_info, Txt.baseName, PyStr(<< >>)),
                                     PyStr(<< >>)),
                  cluster_id |-> PyOr(save.header.cluster_id,
                                      Get(game_info, Txt.clusterId, PyStr(<< >>))),
                  game_info |-> game_info]]

\* extract once its sections are computed: the summary it filled is the
\* dict of the entities when they brought one
Extracted(entities, metadata, duplicants, wgs) ==
    IF ~metadata.ok \/ ~duplicants.ok
    THEN [ok |-> FALSE, doc |-> << >>, entities |-> entities]
    ELSE [ok |-> TRUE,
          doc |-> [metadata |-> metadata.section,
                   duplicants |-> duplicants.section,
                   world_grid_summary |-> wgs,
                   object_group_counts |-> GroupCountsOf(entities)],
          entities |-> IF "world_grid_summary" \in DOMAIN entities
                          /\ IsDict(entities["world_grid_summary"])
                       THEN [entities EXCEPT !["world_grid_summary"] = wgs]
                       ELSE entities]

\* SaveFileDataExtractor.extract(save, entities): [ok, doc, entities]; ok =
\* FALSE is the ValueError or TypeError of int()
extract(save, entities) ==
    Extracted(entities,
              MetadataOf(save, save.header.game_info),
              DuplicantsOf(save.header,
                           [i \in 1 .. Len(Get(entities, "duplicants", << >>)) |->
                               _map_minion_entry(entities["duplicants"][i])]),
              SummaryOf(entities, save.world.width_in_cells, save.world.height_in_cells))

\* the sections of the wrapper for a parse that succeeded
Sections(parsed, raw_minions) ==
    [resources |-> [cycles |-> parsed.save_game.header.num_cycles,
                    base_name |-> Get(parsed.save_game.header.game_info, Txt.baseName,
                                      PyStr(<< >>)),
                    cluster_id |-> Get(parsed.save_game.header.game_info, Txt.clusterId,
                                       PyStr(<< >>)),
                    food |-> PyNone, oxygen |-> PyNone, power |-> PyNone,
                    materials |-> << >>, storage_usage |-> << >>],
     duplicants |-> [count |-> parsed.save_game.header.num_duplicants,
                     list |-> [i \in 1 .. Len(raw_minions) |-> to_canonical(raw_minions[i])],
                     health_status |-> << >>, morale_levels |-> << >>,
                     skill_assignments |-> << >>, current_tasks |-> << >>,
                     stress_levels |-> << >>],
     threats |-> [diseases |-> << >>, temperature_zones |-> << >>,
                  pressure_issues |-> << >>, contamination |-> << >>,
                  hostile_creatures |-> << >>],
     world_grid_summary |->
         WorldGridSummary(parsed.save_game.world.width_in_cells,
                          parsed.save_game.world.height_in_cells, parsed.warnings)]

\* SaveFileDataExtractor.parse_save_file(save_file_path) of the wrapper,
\* given what its parser returned: [ok, header, sections]; ok = FALSE is the
\* ValueError it raises
ExtractedSaveData(f, parsed) ==
    IF ~parsed.success
    THEN [ok |-> FALSE, header |-> << >>, sections |-> << >>]
    ELSE [ok |-> TRUE,
          header |-> [version |-> VersionText(parsed.save_game.version),
                      game_info |-> parsed.save_game.header.game_info],
          sections |-> Sections(parsed,
                          IF parsed.entities["duplicants"] # << >>
                          THEN parsed.entities["duplicants"]
                          ELSE extract_minion_details(f))]
\* a header member that the JSON does not carry
Absent == [t |-> "absent", n |-> 0, s |-> << >>]

\* how far past the supported versions the headers go
VersionSlack == 1
\* the largest cycle and duplicant count a header reports
MaxCount == 2

\* the header JSON as the game writes it, absent members left out
HeaderText(major, minor, cycles, dups) ==
    JsonDump(SelectSeq(<< << Txt.numberOfCycles, cycles >>,
                          << Txt.numberOfDuplicants, dups >>,
                          << Txt.clusterId, PyStr(Txt.c1) >>,
                          << Txt.saveMajorVersion, major >>,
                          << Txt.saveMinorVersion, minor >> >>,
                       LAMBDA member : member[2] # Absent))

\* the file layout _parse_header reads: build version, header size, header
\* version, the compression flag from header version 1 on, the JSON, the rest
SaveFile(header_version, size, text, tail) ==
    LE32(1) \o LE32(size) \o LE32(header_version)
      \o (IF header_version >= 1 THEN LE32(1) ELSE << >>) \o text \o tail

Majors ==
    { Absent, PyStr(Txt.seven) }
      \cup { PyInt(m) : m \in (SUPPORTED_MAJOR_VERSION - VersionSlack)
                                .. (SUPPORTED_MAJOR_VERSION + VersionSlack) }

Minors ==
    { Absent, PyStr(Txt.ab) }
      \cup { PyInt(m) : m \in ((MIN_MINOR_VERSION - VersionSlack) .. MIN_MINOR_VERSION)
                                \cup (MAX_MINOR_VERSION .. (MAX_MINOR_VERSION + VersionSlack)) }

Counts == { Absent, PyNone, PyStr(Txt.ab) } \cup { PyInt(n) : n \in (0 - MaxCount) .. MaxCount }

HeaderTexts ==
    { HeaderText(major, minor, PyInt(5), PyInt(2)) : major \in Majors, minor \in Minors }
      \cup { HeaderText(PyInt(SUPPORTED_MAJOR_VERSION), PyInt(MAX_MINOR_VERSION), cycles, dups) :
                 cycles \in Counts, dups \in Counts }

\* what follows the header: nothing, bytes that are no zlib stream, a zlib
\* signature with no stream behind it
Tails == { << >>, << 0, 255, 7, 0, 0, 0 >>, << 120, 156, 255, 255 >> }

\* header texts that are no JSON object: not UTF-8, cut short, a list
BadHeaderTexts == { << 123, 255, 125 >>, << 123, 34, 97, 34, 58 >>, Txt.emptylist }

SaveFiles ==
    { SaveFile(hv, Len(text), text, tail) :
          hv \in {0, 1}, text \in HeaderTexts \cup BadHeaderTexts, tail \in Tails }
      \cup { SaveFile(hv, Len(text) + 300, text, tail) :
                 hv \in {0, 1}, text \in { HeaderText(Absent, Absent, Absent, Absent) },
                 tail \in Tails }
      \cup { << >>, << 1, 0, 0 >>, LE32(1) \o LE32(2) \o LE32(1) }

-----------------------------------------------------------------------------
(* The parser called on a file.                                            *)

NoGameInfo == [set |-> FALSE, gi |-> << >>]

InitParse ==
    /\ file \in [exists : {TRUE}, data : SaveFiles]
    /\ save_body = << >>
    /\ last_game_info = NoGameInfo
    /\ log = << >>
    /\ call = [op |-> "none", file |-> file]
    /\ result = ParseResult

\* the file is deleted
RemoveFile ==
    /\ file.exists
    /\ file' = [file EXCEPT !.exists = FALSE]
    /\ UNCHANGED << save_body, last_game_info, log, call, result >>

\* OniSaveParser.parse_save_file(file_path)
ParseSaveFile ==
    \E r \in { parse_save_file(file, last_game_info) } :
        /\ call' = [op |-> "parse_save_file", file |-> file]
        /\ result' = r.result
        /\ log' = r.log
        /\ last_game_info' = r.lgi
        /\ UNCHANGED << file, save_body >>

NextParse == RemoveFile \/ ParseSaveFile

SpecParse == InitParse /\ [][NextParse]_vars

-----------------------------------------------------------------------------
(* The two decoders called on a body.                                      *)

InitDecode ==
    /\ file = [exists |-> FALSE, data |-> << >>]
    /\ save_body \in Bodies
    /\ last_game_info = NoGameInfo
    /\ log = << >>
    /\ call = [op |-> "none", file |-> file]
    /\ result = << >>

\* DuplicantDecoder.extract_minion_details_from_body(body)
ExtractMinionDetailsFromBody ==
    /\ call' = [op |-> "DuplicantDecoder", file |-> file]
    /\ result' = extract_minion_details_from_body(save_body)
    /\ UNCHANGED << file, save_body, last_game_info, log >>

\* OniSaveParser._extract_minion_details_from_body(body)
InlineExtractMinionDetailsFromBody ==
    /\ call' = [op |-> "OniSaveParser", file |-> file]
    /\ result' = _extract_minion_details_from_body(save_body)
    /\ UNCHANGED << file, save_body, last_game_info, log >>

NextDecode == ExtractMinionDetailsFromBody \/ InlineExtractMinionDetailsFromBody

SpecDecode == InitDecode /\ [][NextDecode]_vars

-----------------------------------------------------------------------------
(* The decoder's walk on bodies that are cut short or hold lengths and      *)
(* counts that are negative or too large.                                   *)

\* a body of four groups: tiles, a duplicant with every kind of block and a
\* block the decoder does not know, tiles, a second duplicant
FrameBase ==
    Body(<< Group(Txt.Tile, 2, << 0, 0 >>),
            Group(Txt.Minion, 1,
                  Instance(FloatWord.one, FloatWord.two, 0,
                      << Behavior(Txt.MinionIdentity,
                                  KeyValue(Txt.name, KleiString(Txt.Ada))
                                    \o KeyValue(Txt.gender, KleiString(Txt.FEMALE))
                                    \o KeyValue(Txt.arrivalTime, LE32(12))),
                         Behavior(Txt.Tile, << 1, 2, 3 >>),
                         Behavior(Txt.MinionResume,
                                  ResumePayload([Duplicant EXCEPT !.role = Txt.Miner])),
                         Behavior(Txt.MinionModifiers,
                                  KeyValue(Txt.Stress, LE32(FloatWord.fifty)
                                                         \o LE32(FloatWord.twenty_five))),
                         Behavior(Txt.Accessorizer, KleiString(Txt.hat_building3)),
                         Behavior(Txt.KleiAITraits, StringsPayload(<< Txt.Foodie >>)) >>)),
            Group(Txt.Tile, 1, << 7 >>),
            MinionGroup(<< [Duplicant EXCEPT !.role = Txt.Miner] >>) >>)

\* b with the four bytes at off replaced by the word v
Overwrite(b, off, v) ==
    [i \in 1 .. Len(b) |-> IF i > off /\ i <= off + 4 THEN LE32(v)[i - off] ELSE b[i]]

\* the words a length or a count is overwritten with: negative, nothing, a
\* few bytes, a few bytes more than the block holds, more than any body holds
BadLengths == { -1, 0, 3, 12, 2147483647 }

\* the offsets of FrameBase where the walk reads a length or a count (the
\* group count, then those of the headers it frames), and every offset of
\* the payload of a block
LengthOffsets ==
    { 12 }
      \cup UNION { { e.start - 4 } \cup (IF e.kind = "group" THEN { e.at, e.start - 8 }
                                         ELSE IF e.kind = "block" THEN { e.at }
                                         ELSE { })
                     \cup (IF e.kind = "block" THEN e.start .. (e.start + e.len - 4) ELSE { }) :
                   e \in Range(GroupWalk(FALSE, FrameBase, 0).seen) }

\* a Minion group that holds four bytes after its instance, and one that
\* announces two instances and holds one, each before a second Minion group
PaddedGroupBody ==
    Body(<< Group(Txt.Minion, 1,
                  Instance(FloatWord.one, FloatWord.two, 0, << >>) \o << 0, 0, 0, 0 >>),
            MinionGroup(<< [Duplicant EXCEPT !.role = Txt.Miner] >>) >>)
ShortGroupBody ==
    Body(<< Group(Txt.Minion, 2, Instance(FloatWord.one, FloatWord.two, 0, << >>)),
            MinionGroup(<< [Duplicant EXCEPT !.role = Txt.Miner] >>) >>)

\* FrameBase cut short at any point, and with one word overwritten
FrameBodies ==
    { Slice(FrameBase, 0, n) : n \in 0 .. Len(FrameBase) }
      \cup { Overwrite(FrameBase, off, v) : off \in LengthOffsets, v \in BadLengths }
      \cup { PaddedGroupBody, ShortGroupBody }

InitFrame ==
    /\ file = [exists |-> FALSE, data |-> << >>]
    /\ save_body \in FrameBodies
    /\ last_game_info = NoGameInfo
    /\ log = << >>
    /\ call = [op |-> "none", file |-> file]
    /\ result = << >>

\* DuplicantDecoder.extract_minion_details_from_body(body): result.minions
\* is what it returns, result.seen what its walk framed
WalkBody ==
    /\ call.op = "none"
    /\ call' = [op |-> "walk", file |-> file]
    /\ result' = GroupWalk(FALSE, save_body, Find(save_body, Txt.KSAV, 0))
    /\ UNCHANGED << file, save_body, last_game_info, log >>

NextFrame == WalkBody

SpecFrame == InitFrame /\ [][NextFrame]_vars

-----------------------------------------------------------------------------
(* The section documents made from saves and from parsed data.             *)

\* the bodies of the saves: a colony of one, a colony of two, buildings
\* only, buildings and a colony
ColonyBodies ==
    { MinionBody(<< [Duplicant EXCEPT !.role = Txt.Miner] >>),
      MinionBody(<< Duplicant, [Duplicant EXCEPT !.traits = << Txt.Foodie >>] >>),
      Body(<< Group(Txt.Tile, 2, << 0, 0 >>) >>),
      Body(<< Group(Txt.Tile, 2, << 0, 0 >>), MinionGroup(<< Duplicant >>) >>) }

\* a save with a supported version: the header, then nothing or the body
\* as one zlib stream
ColonyFiles ==
    { SaveFile(1, Len(text), text, tail) :
          text \in { HeaderText(PyInt(SUPPORTED_MAJOR_VERSION), PyInt(MAX_MINOR_VERSION),
                                PyInt(5), dups) :
                         dups \in { Absent } \cup { PyInt(n) : n \in 0 .. MaxCount } },
          tail \in { << >> } \cup { zlib_compress(b) : b \in ColonyBodies } }

\* the world sizes of the SaveGame models handed to extract
Dimensions == { << 0, 0 >>, << 2, 3 >>, << -1, 3 >> }

SaveGames ==
    { [SaveGame EXCEPT
          !.header = [SaveGameHeader EXCEPT !.num_cycles = PyInt(cycles),
                                            !.num_duplicants = PyInt(dups),
                                            !.game_info = gi],
          !.world = [width_in_cells |-> dim[1], height_in_cells |-> dim[2]],
          !.version = [major |-> PyInt(SUPPORTED_MAJOR_VERSION),
                       minor |-> PyInt(MAX_MINOR_VERSION)]] :
          cycles \in { 5 }, dups \in { 0, MaxCount },
          gi \in { << >>, (Txt.baseName :> PyStr(Txt.c1)) }, dim \in Dimensions }

\* the entities handed to extract: none, what the parser decodes, group
\* counts (one of them no number), no summary, a partial and a full summary
EntityMaps ==
    { << >>,
      ("duplicants" :> _extract_minion_details_from_body(
                           MinionBody(<< [Duplicant EXCEPT !.role = Txt.Miner] >>))),
      ("object_group_counts" :> ((Txt.Tile :> PyInt(2)) @@ (Txt.Minion :> PyStr(Txt.ab)))),
      ("world_grid_summary" :> PyNone),
      ("world_grid_summary" :> ("width" :> 4)),
      ("world_grid_summary" :> ("warnings" :> << Txt.ab >>)),
      ("world_grid_summary" :> WorldGridSummary(2, 3, << >>)) }

InitExtract ==
    /\ file \in [exists : {TRUE}, data : ColonyFiles]
    /\ save_body = << >>
    /\ last_game_info = NoGameInfo
    /\ log = << >>
    /\ call = [op |-> "none", file |-> file]
    /\ result = ParseResult

\* SaveFileDataExtractor.extract(save, entities) of data_extractor.py;
\* left is what the call leaves of the entities
Extract ==
    \E save \in SaveGames, entities \in EntityMaps :
        /\ call' = [op |-> "extract", file |-> file, save |-> save,
                    entities |-> entities, left |-> extract(save, entities).entities]
        /\ result' = [ok |-> extract(save, entities).ok,
                      doc |-> extract(save, entities).doc]
        /\ UNCHANGED << file, save_body, last_game_info, log >>

\* scripts/parse_save.py: a new parser parses the file and extract makes the
\* document; a failed parse prints the error and exits with 1
ParseSave ==
    \E r \in { parse_save_file(file, NoGameInfo) } :
        /\ call' = [op |-> "parse_save", file |-> file]
        /\ result' = IF r.result.success
                     THEN [ok |-> extract(r.result.save_game, r.result.entities).ok,
                           doc |-> extract(r.result.save_game, r.result.entities).doc]
                     ELSE [ok |-> FALSE,
                           doc |-> [success |-> FALSE, error |-> r.result.error_message,
                                    warnings |-> r.result.warnings]]
        /\ log' = r.log
        /\ UNCHANGED << file, save_body, last_game_info >>

\* SaveFileDataExtractor.parse_save_file(save_file_path) of the section
\* wrapper, whose parser is the one of ParseSaveFile
SectionsOfSave ==
    \E r \in { parse_save_file(file, last_game_info) } :
        /\ call' = [op |-> "sections", file |-> file]
        /\ result' = ExtractedSaveData(file, r.result)
        /\ log' = r.log
        /\ last_game_info' = r.lgi
        /\ UNCHANGED << file, save_body >>

NextExtract == ParseSaveFile \/ Extract \/ ParseSave \/ SectionsOfSave

SpecExtract == InitExtract /\ [][NextExtract]_vars

-----------------------------------------------------------------------------
(* The loops of the decoder, one iteration at a time.  call holds the loop  *)
(* (op), its cursor q, the block [start, end) it runs in, what its range or *)
(* its budget has left, whether it is still running (live) and the         *)
(* iterations it has completed (n).                                         *)

Loop(op, start, end, left) ==
    [op |-> op, q |-> start, start |-> start, end |-> end, left |-> left,
     live |-> TRUE, n |-> 0, sig |-> << >>]

\* the loop after an iteration that went on at q, and after one that left it
GoOn(loop, q) == [loop EXCEPT !.q = q, !.left = @ - 1, !.n = @ + 1]
Leave(loop, q) == [loop EXCEPT !.q = q, !.live = FALSE]

\* a walk that has framed nothing yet, at offset q
WalkAt(q) == [p |-> q, minions |-> << >>, bound |-> TRUE, seen |-> << >>]
BehaviorsAt(q) == [p |-> q, info |-> << >>, bound |-> TRUE, seen |-> << >>]

\* the loop after one iteration of a walk that left it at walked: the
\* iteration went on if the last thing it framed is of the loop's kind
AfterWalk(loop, walked, kind) ==
    IF walked.seen # << >> /\ walked.seen[Len(walked.seen)].kind = kind
    THEN GoOn(loop, walked.p)
    ELSE Leave(loop, walked.p)

\* what the decoder's walk frames in the body: the places where the inner
\* loops start
SeenIn(body) == Range(GroupWalk(FALSE, body, Find(body, Txt.KSAV, 0)).seen)

\* one iteration of the while loop of _scan_klei_strings at p, with left
\* strings to go: [live, p, kept]; kept says a string was appended
ScanStuck(mv, p, end, left) ==
    IF p + 4 > end \/ left <= 0 THEN [live |-> FALSE, p |-> p, kept |-> FALSE]
    ELSE IF I32(mv, p) < 0 \/ I32(mv, p) > end - p - 4
    THEN [live |-> TRUE, p |-> p, kept |-> FALSE]
    ELSE [live |-> TRUE, p |-> p + 4 + I32(mv, p),
          kept |-> DecodeIgnore(Slice(mv, p + 4, p + 4 + I32(mv, p))) # << >>]

ScanStep(mv, p, end, left) ==
    IF p + 4 > end \/ left <= 0 THEN [live |-> FALSE, p |-> p, kept |-> FALSE]
    ELSE IF I32(mv, p) < 0 \/ I32(mv, p) > end - p - 4
    THEN [live |-> TRUE, p |-> p + 1, kept |-> FALSE]
    ELSE [live |-> TRUE, p |-> p + 4 + I32(mv, p),
          kept |-> DecodeIgnore(Slice(mv, p + 4, p + 4 + I32(mv, p))) # << >>]

\* byte strings with zlib signatures in them
SignatureBytes ==
    { << 120, 156, 120, 156, 1, 120, 218, 120 >>, << 120, 120, 1, 1, 120, 1 >>,
      << 120, 156 >>, << 156, 120 >> }

\* the bodies the loops run on: FrameBase with one word overwritten, cut
\* short at some points, and bytes with signatures
\* the distance between two points where FrameBase is cut
CutStride == 7
CutPoints == { n \in 0 .. Len(FrameBase) : n % CutStride = 0 }
LoopBodies ==
    { Overwrite(FrameBase, off, v) : off \in LengthOffsets, v \in { -1, 12 } }
      \cup { Slice(FrameBase, 0, n) : n \in CutPoints }
      \cup { FrameBase, PaddedGroupBody, ShortGroupBody }
      \cup SignatureBytes

InitLoop ==
    /\ file = [exists |-> FALSE, data |-> << >>]
    /\ save_body \in LoopBodies
    /\ last_game_info = NoGameInfo
    /\ log = << >>
    /\ call = [op |-> "none"]
    /\ result = << >>

Unchanged == UNCHANGED << file, save_body, last_game_info, log, result >>

\* for _ in range(max(0, group_count)): the loop starts after the group count
EnterGroups ==
    /\ call.op = "none"
    /\ Find(save_body, Txt.KSAV, 0) # -1
    /\ Find(save_body, Txt.KSAV, 0) + 16 <= Len(save_body)
    /\ call' = Loop("groups", Find(save_body, Txt.KSAV, 0) + 16, Len(save_body),
                    Max(0, I32(save_body, Find(save_body, Txt.KSAV, 0) + 12)))
    /\ Unchanged

GroupStep ==
    /\ call.op = "groups" /\ call.live
    /\ call' = IF call.left = 0 THEN Leave(call, call.q)
               ELSE AfterWalk(call, Groups(FALSE, save_body, 1, WalkAt(call.q)), "group")
    /\ Unchanged

\* for _i in range(instance_count): the loop starts at the data of a Minion
\* group
EnterInstances ==
    /\ call.op = "none"
    /\ \E e \in SeenIn(save_body) :
          /\ e.kind = "group" /\ e.name = Txt.Minion /\ e.count > 0
          /\ call' = Loop("instances", e.start, Len(save_body), e.count)
    /\ Unchanged

InstanceStep ==
    /\ call.op = "instances" /\ call.live
    /\ call' = IF call.left = 0 THEN Leave(call, call.q)
               ELSE AfterWalk(call, Instances(FALSE, save_body, 1, WalkAt(call.q)),
                              "instance")
    /\ Unchanged

\* for _b in range(max(0, behavior_count)): the loop starts after the header
\* of an instance
EnterBehaviors ==
    /\ call.op = "none"
    /\ \E e \in SeenIn(save_body) :
          /\ e.kind = "instance"
          /\ call' = Loop("behaviors", e.start, Len(save_body), Max(0, e.count))
    /\ Unchanged

BehaviorStep ==
    /\ call.op = "behaviors" /\ call.live
    /\ call' = IF call.left = 0 THEN Leave(call, call.q)
               ELSE AfterWalk(call, Behaviors(FALSE, save_body, 1, BehaviorsAt(call.q)),
                              "block")
    /\ Unchanged

\* the key/value walks start at the payload of their block
EnterKeyValues ==
    /\ call.op = "none"
    /\ \E e \in SeenIn(save_body) :
          /\ e.kind = "block"
          /\ e.name \in { Txt.MinionIdentity, Txt.MinionResume, Txt.MinionModifiers }
          /\ call' = Loop(IF e.name = Txt.MinionIdentity THEN "identity"
                          ELSE IF e.name = Txt.MinionResume THEN "resume"
                          ELSE "modifiers",
                          e.start, e.next, 0)
    /\ Unchanged

\* one iteration of a key/value walk that needs need bytes before the end
\* of the block to go on
KeyValueStep(need) ==
    call' = IF call.q + need > call.end THEN Leave(call, call.q)
            ELSE IF KeyValueAt(save_body, call.q, call.end).stop THEN Leave(call, call.q)
            ELSE GoOn(call, KeyValueAt(save_body, call.q, call.end).next)

\* while q < beh_end of _parse_minion_identity
IdentityLoop ==
    /\ call.op = "identity" /\ call.live
    /\ KeyValueStep(1)
    /\ Unchanged

\* while q < beh_end of _parse_minion_resume
ResumeLoop ==
    /\ call.op = "resume" /\ call.live
    /\ KeyValueStep(1)
    /\ Unchanged

\* while q + 8 <= beh_end of _parse_minion_modifiers
ModifiersLoop ==
    /\ call.op = "modifiers" /\ call.live
    /\ KeyValueStep(8)
    /\ Unchanged

\* _scan_klei_strings over the block of an accessorizer (128 strings at
\* most) or of the identity (32)
EnterScan ==
    /\ call.op = "none"
    /\ \E e \in SeenIn(save_body) :
          /\ e.kind = "block" /\ e.name \in { Txt.Accessorizer, Txt.MinionIdentity }
          /\ call' = Loop("strings", e.start, e.next,
                          IF e.name = Txt.Accessorizer THEN 128 ELSE 32)
    /\ Unchanged

ScanLoop ==
    /\ call.op = "strings" /\ call.live
    /\ call' = IF ~ScanStep(save_body, call.q, call.end, call.left).live
               THEN Leave(call, call.q)
               ELSE [call EXCEPT !.q = ScanStep(save_body, call.q, call.end, call.left).p,
                                 !.n = @ + 1,
                                 !.left = IF ScanStep(save_body, call.q, call.end,
                                                      call.left).kept
                                          THEN @ - 1 ELSE @]
    /\ Unchanged

\* the scan for one zlib signature: idx = 0, then search.find(sig, idx)
EnterSignatures ==
    /\ call.op = "none"
    /\ \E sig \in ZlibSignatures :
          call' = [Loop("signatures", 0, Len(save_body), 0) EXCEPT !.sig = sig]
    /\ Unchanged

SignatureLoop ==
    /\ call.op = "signatures" /\ call.live
    /\ call' = IF Find(save_body, call.sig, call.q) = -1 THEN Leave(call, call.q)
               ELSE GoOn(call, Find(save_body, call.sig, call.q) + 1)
    /\ Unchanged

NextLoop ==
    \/ EnterGroups \/ GroupStep
    \/ EnterInstances \/ InstanceStep
    \/ EnterBehaviors \/ BehaviorStep
    \/ EnterKeyValues \/ IdentityLoop \/ ResumeLoop \/ ModifiersLoop
    \/ EnterScan \/ ScanLoop
    \/ EnterSignatures \/ SignatureLoop

SpecLoop == InitLoop /\ [][NextLoop]_vars

-----------------------------------------------------------------------------
(* The scanner and the metadata builder called on the bytes of a file.     *)

\* a zlib stream of one stored block under the signature 78 flg
Deflated(flg, data) == << 120, flg >> \o Slice(zlib_compress(data), 2, Len(zlib_compress(data)))

\* the stream with its checksum broken
Corrupt(stream) == [stream EXCEPT ![Len(stream)] = (stream[Len(stream)] + 1) % 256]

\* a body of one group, a body of two groups, bytes without the marker
TileBody == Body(<< Group(Txt.Tile, 2, << 0, 0 >>) >>)
TwoGroupBody == Body(<< Group(Txt.Tile, 2, << >>), Group(Txt.Minion, 1, << 7 >>) >>)
NoMarker == Txt.Minion \o Txt.Tile

\* what follows the header JSON
ScanTails ==
    { << >>, << 0, 255, 7, 0, 0, 0 >>, << 120, 156, 255, 255 >>, << 120 >> }
      \cup { Deflated(flg, TileBody) : flg \in { 156, 218, 1 } }
      \cup { Corrupt(Deflated(flg, TileBody)) : flg \in { 156, 218, 1 } }
      \cup { Deflated(1, NoMarker),
             Deflated(1, NoMarker) \o Deflated(156, TileBody),
             Corrupt(Deflated(218, TileBody)) \o Deflated(1, TwoGroupBody),
             Deflated(218, TwoGroupBody) \o Deflated(156, TileBody),
             << 0, 120, 1 >> \o Deflated(156, TwoGroupBody) \o << 9 >>,
             Deflated(1, Deflated(156, TileBody)) }

\* what lies in the place of the header JSON: nothing, JSON, a stream
ScanTexts ==
    { << >>, HeaderText(PyInt(SUPPORTED_MAJOR_VERSION), PyInt(MAX_MINOR_VERSION),
                        PyInt(5), PyInt(2)),
      Deflated(1, TwoGroupBody) }

\* the buffers: headers whose size fits, headers whose size overruns the
\* file, and buffers too short for a header
ScanBuffers ==
    { SaveFile(hv, Len(text), text, tail) :
          hv \in { 0, 1 }, text \in ScanTexts, tail \in ScanTails }
      \cup { SaveFile(hv, Len(text) + Len(tail) + 1, text, tail) :
                 hv \in { 0, 1 }, text \in ScanTexts, tail \in ScanTails }
      \cup { << >>, << 120, 156 >>, << 1, 0, 0 >>, LE32(1) \o LE32(0) \o LE32(1),
             SubSeq(Deflated(1, TileBody), 1, 11), LE32(1) \o LE32(0) \o LE32(0) }

InitScan ==
    /\ file \in [exists : {TRUE}, data : ScanBuffers]
    /\ save_body = << >>
    /\ last_game_info = NoGameInfo
    /\ log = << >>
    /\ call = [op |-> "none", file |-> file]
    /\ result = << >>

\* CompressedBlocksScanner.decompress_body_block(data)
DecompressBodyBlock ==
    /\ call' = [op |-> "decompress_body_block", file |-> file]
    /\ result' = decompress_body_block(file.data)
    /\ UNCHANGED << file, save_body, last_game_info, log >>

\* the bodies a caller of build has at hand: none, the body of a save, a
\* body cut after the version words
CachedBodies == { << >>, TileBody, SubSeq(TileBody, 1, 12) }

\* MetadataBuilder.build(file_bytes, cached_body)
Build ==
    \E cached_body \in CachedBodies :
        /\ call' = [op |-> "build", file |-> file, cached_body |-> cached_body]
        /\ result' = build(file.data, cached_body)
        /\ UNCHANGED << file, save_body, last_game_info, log >>

NextScan == DecompressBodyBlock \/ Build

SpecScan == InitScan /\ [][NextScan]_vars

-----------------------------------------------------------------------------
(* The two group walks of KSAVGroupCounter called on a body.               *)

\* a group as its four fields, whatever the lengths say
RawGroup(name_len, name, instance_count, data_length, data) ==
    LE32(name_len) \o name \o LE32(instance_count) \o LE32(data_length) \o data

\* a body that announces group_count groups
Counted(group_count, groups) ==
    Txt.KSAV \o LE32(7) \o LE32(36) \o LE32(group_count) \o Concat(groups)

\* the largest number of groups a body announces beyond those it holds
MaxExtraGroups == 1

\* group tables: sound ones, a name twice, and after a sound group one whose
\* name length is negative or overruns, whose data length is negative or
\* overruns, each followed by a sound group
GroupTables ==
    { << >>,
      << Group(Txt.Tile, 2, << 0, 0 >>) >>,
      << Group(Txt.Tile, 2, << >>), Group(Txt.Minion, 1, << 7 >>), Group(Txt.other, 4, << >>) >>,
      << Group(Txt.Tile, 2, << >>), Group(Txt.Tile, 5, << >>) >>,
      << Group(Txt.Tile, 2, << >>), RawGroup(-1, << >>, 3, 0, << >>),
         Group(Txt.Minion, 1, << >>) >>,
      << Group(Txt.Tile, 2, << >>), RawGroup(100, Txt.other, 3, 0, << >>),
         Group(Txt.Minion, 1, << >>) >>,
      << Group(Txt.Tile, 2, << >>), RawGroup(Len(Txt.other), Txt.other, 3, -1, << >>),
         Group(Txt.Minion, 1, << >>) >>,
      << Group(Txt.Tile, 2, << >>), RawGroup(Len(Txt.other), Txt.other, 3, 100, << >>),
         Group(Txt.Minion, 1, << >>) >>,
      << RawGroup(Len(Txt.other), Txt.other, 3, -8, << >>), Group(Txt.Minion, 1, << >>) >> }

\* the bodies: every table under a count that is negative, too small, right
\* or too large; every cut of a body of three groups; bytes without marker
WalkBodies ==
    { Counted(group_count, groups) :
          group_count \in -1 .. 3 + MaxExtraGroups, groups \in GroupTables }
      \cup { Slice(Counted(3, << Group(Txt.Tile, 2, << >>), Group(Txt.Minion, 1, << 7 >>),
                                Group(Txt.other, 4, << >>) >>), 0, n) : n \in 0 .. 60 }
      \cup { << 1, 2, 3 >>, Txt.Minion \o Counted(1, << Group(Txt.Tile, 2, << >>) >>) }

InitWalk ==
    /\ file = [exists |-> FALSE, data |-> << >>]
    /\ save_body \in WalkBodies
    /\ last_game_info = NoGameInfo
    /\ log = << >>
    /\ call = [op |-> "none", file |-> file]
    /\ result = << >>

\* KSAVGroupCounter.extract_object_group_counts(body)
ExtractObjectGroupCounts ==
    /\ call' = [op |-> "extract_object_group_counts", file |-> file]
    /\ result' = [raised |-> FALSE, counts |-> extract_object_group_counts(save_body)]
    /\ UNCHANGED << file, save_body, last_game_info, log >>

\* KSAVGroupCounter.summarize(body)
Summarize ==
    /\ call' = [op |-> "summarize", file |-> file]
    /\ result' = summarize(save_body)
    /\ UNCHANGED << file, save_body, last_game_info, log >>

NextWalk == ExtractObjectGroupCounts \/ Summarize

SpecWalk == InitWalk /\ [][NextWalk]_vars

-----------------------------------------------------------------------------
(* One OniSaveParser shared by two callers.                                *)

\* the threads that call parse_save_file on the one parser
Tasks == { 1, 2 }

\* a header JSON with the size of the world, absent members left out
WorldHeaderText(cycles, width, height) ==
    JsonDump(SelectSeq(<< << Txt.numberOfCycles, cycles >>,
                          << Txt.numberOfDuplicants, PyInt(1) >>,
                          << Txt.WidthInCells, width >>,
                          << Txt.HeightInCells, height >> >>,
                       LAMBDA member : member[2] # Absent))

\* a duplicant with a role and one aptitude in its resume
Apprentice ==
    [Duplicant EXCEPT !.role = Txt.Miner, !.apts = << << Txt.Mining, LE32(2) >> >>]

\* the headers of three colonies, one without the size of its world
SharedTexts ==
    { WorldHeaderText(PyInt(5), Absent, Absent),
      WorldHeaderText(PyInt(5), PyInt(2), PyInt(3)),
      WorldHeaderText(PyInt(2), PyInt(4), PyInt(6)) }

\* the saves of the colonies, each with no body, with a colony of one and
\* with a colony of two apprentices; a file cut short
SharedFiles ==
    { SaveFile(1, Len(text), text, tail) :
          text \in SharedTexts,
          tail \in { << >>, zlib_compress(MinionBody(<< Duplicant >>)),
                     zlib_compress(MinionBody(<< Apprentice, Apprentice >>)) } }
      \cup { << 1, 0, 0 >> }

\* no call of the task is under way
Idle == [op |-> "none", stage |-> "idle"]

InitShared ==
    /\ file = [exists |-> TRUE, data |-> << >>]
    /\ save_body = << >>
    /\ last_game_info = NoGameInfo
    /\ log = << >>
    /\ call = [t \in Tasks |-> Idle]
    /\ result = [t \in Tasks |-> ParseResult]

\* parse_save_file(file_path) up to file_data = f.read(): result is a new
\* ParseResult
OpenFile(t) ==
    /\ call[t].stage \in { "idle", "done" }
    /\ \E data \in SharedFiles :
          call' = [call EXCEPT ![t] = [op |-> "parse_save_file", stage |-> "read",
                                       file |-> [exists |-> TRUE, data |-> data]]]
    /\ result' = [result EXCEPT ![t] = ParseResult]
    /\ UNCHANGED << file, save_body, last_game_info, log >>

\* _parse_save_data up to the return of _parse_header, which leaves the
\* game info on the parser
ParseHeader(t) ==
    /\ call[t].stage = "read"
    /\ \E ph \in { _parse_header(BinaryReader(call[t].file.data), last_game_info) } :
          /\ call' = [call EXCEPT ![t] = [op |-> "parse_save_file", stage |-> "header",
                                          file |-> call[t].file, ph |-> ph]]
          /\ last_game_info' = ph.lgi
    /\ UNCHANGED << file, save_body, log, result >>

\* the sections of a parser that took the cycles from the game info it
\* holds, not from the header of the call
SectionsOfHeld(ph, lgi) ==
    ParseSections([ph EXCEPT !.lgi = lgi,
                             !.header.num_cycles =
                                 Get(lgi.gi, Txt.numberOfCycles, PyInt(0))])

\* the sections of _parse_save_data after the header ph, on a parser whose
\* last_game_info is lgi when _parse_world reads it
SectionsOnParser(ph, lgi) == ParseSections([ph EXCEPT !.lgi = lgi])

\* the rest of parse_save_file: the version check, the sections, with
\* _parse_world reading the game info the parser holds now, and the entities
ParseRest(t) ==
    /\ call[t].stage = "header"
    /\ \E r \in { ParsedFile(call[t].file, SectionsOnParser(call[t].ph, last_game_info)) } :
          /\ result' = [result EXCEPT ![t] = r.result]
          /\ log' = r.log
    /\ call' = [call EXCEPT ![t] = [op |-> "parse_save_file", stage |-> "done",
                                    file |-> call[t].file]]
    /\ UNCHANGED << file, save_body, last_game_info >>

NextShared == \E t \in Tasks : OpenFile(t) \/ ParseHeader(t) \/ ParseRest(t)

SpecShared == InitShared /\ [][NextShared]_vars

-----------------------------------------------------------------------------
(* A BinaryReader read, skipped and sought.                                *)

\* the longest read_bytes asked for
MaxRead == 5
\* the longest skip, forward and backward
MaxSkip == 3
\* how far from the start the stream position and the tracked position go
MaxSeek == 12

\* the buffers read: a string and a byte, an empty string and a string cut
\* short, a negative length, a string that is no UTF-8, a short buffer,
\* none, a zlib stream of no bytes
ReaderData ==
    { LE32(2) \o Txt.ab \o << 7 >>,
      LE32(0) \o LE32(5) \o Txt.ab,
      LE32(-1) \o << 1, 2 >>,
      LE32(1) \o << 255 >>,
      << 3, 0 >>,
      << >>,
      zlib_compress(<< >>) }

InitReader ==
    /\ file \in [exists : {TRUE}, data : ReaderData]
    /\ save_body = << >>
    /\ last_game_info = NoGameInfo
    /\ log = << >>
    /\ call = [op |-> "BinaryReader", rd |-> BinaryReader(file.data), count |-> 0]
    /\ result = [ok |-> TRUE, err |-> << >>, rd |-> BinaryReader(file.data)]

\* the positions stay within the bounds of the model
Within(rd) ==
    /\ rd.pos <= MaxSeek
    /\ rd.position >= 0 - MaxSeek /\ rd.position <= MaxSeek

\* reader.read_bytes(count)
ReadBytes ==
    \E count \in (0 - 1) .. MaxRead :
        /\ call' = [op |-> "read_bytes", rd |-> result.rd, count |-> count]
        /\ result' = read_bytes(result.rd, count)
        /\ UNCHANGED << file, save_body, last_game_info, log >>

\* read_int8 .. read_float64 and read_bool: struct.unpack on the bytes of
\* read_bytes(size), which are the value read
ReadWord ==
    \E size \in { 1, 2, 4, 8 } :
        /\ call' = [op |-> "read_word", rd |-> result.rd, count |-> size]
        /\ result' = read_bytes(result.rd, size)
        /\ UNCHANGED << file, save_body, last_game_info, log >>

\* reader.read_string()
ReadString ==
    /\ call' = [op |-> "read_string", rd |-> result.rd, count |-> 0]
    /\ result' = read_string(result.rd)
    /\ UNCHANGED << file, save_body, last_game_info, log >>

\* reader.skip_bytes(count)
SkipBytes ==
    \E count \in (0 - MaxSkip) .. MaxSkip :
        /\ Within(skip_bytes(result.rd, count).rd)
        /\ call' = [op |-> "skip_bytes", rd |-> result.rd, count |-> count]
        /\ result' = skip_bytes(result.rd, count)
        /\ UNCHANGED << file, save_body, last_game_info, log >>

\* reader.seek(position)
Seek ==
    \E position \in (0 - 2) .. MaxSeek :
        /\ call' = [op |-> "seek", rd |-> result.rd, count |-> position]
        /\ result' = seek(result.rd, position)
        /\ UNCHANGED << file, save_body, last_game_info, log >>

\* reader.read_array(reader.read_int8)
ReadArray ==
    /\ call' = [op |-> "read_array", rd |-> result.rd, count |-> 0]
    /\ result' = read_array(result.rd)
    /\ UNCHANGED << file, save_body, last_game_info, log >>

\* reader.decompress_zlib() and reader.decompress_zlib(compressed_size)
DecompressZlib ==
    \E to_end \in BOOLEAN :
        \E compressed_size \in IF to_end THEN { 0 } ELSE { 2, Len(result.rd.data) } :
            /\ call' = [op |-> IF to_end THEN "decompress_zlib()" ELSE "decompress_zlib(n)",
                        rd |-> result.rd, count |-> compressed_size]
            /\ result' = decompress_zlib(result.rd, to_end, compressed_size)
            /\ UNCHANGED << file, save_body, last_game_info, log >>

\* reader.remaining_bytes(): the stream goes to its end and back
RemainingBytes ==
    /\ call' = [op |-> "remaining_bytes", rd |-> result.rd, count |-> 0]
    /\ result' = [ok |-> TRUE, err |-> << >>, rd |-> result.rd,
                  n |-> remaining_bytes(result.rd)]
    /\ UNCHANGED << file, save_body, last_game_info, log >>

NextReader ==
    \/ ReadBytes \/ ReadWord \/ ReadString \/ SkipBytes \/ Seek
    \/ ReadArray \/ DecompressZlib \/ RemainingBytes

SpecReader == InitReader /\ [][NextReader]_vars

-----------------------------------------------------------------------------
(* What a file holds, read off its bytes.                                  *)

Returned == call.op = "parse_save_file"

\* the fixed words and the declared header JSON fit in the file
HeaderFits(data) ==
    /\ Len(data) >= 12
    /\ (IF U32(data, 8) >= 1 THEN 16 ELSE 12) + U32(data, 4) <= Len(data)

HeaderTextOf(data) ==
    LET p == IF U32(data, 8) >= 1 THEN 16 ELSE 12
    IN  Slice(data, p, p + U32(data, 4))

\* the header text is a JSON object
HeaderDecodes(f) ==
    /\ f.exists
    /\ HeaderFits(f.data)
    /\ IsUtf8(HeaderTextOf(f.data))
    /\ json_loads(HeaderTextOf(f.data)).ok
    /\ json_loads(HeaderTextOf(f.data)).isdict

\* the member the header JSON carries under key, Absent when it has none
Member(f, key) == Get(json_loads(HeaderTextOf(f.data)).d, key, Absent)

\* the fatal inputs: no file, a header that does not fit or is no JSON
\* object, a major version that is not the supported one
Fatal(f) ==
    \/ ~HeaderDecodes(f)
    \/ Member(f, Txt.saveMajorVersion) \notin { Absent, PyInt(SUPPORTED_MAJOR_VERSION) }

-----------------------------------------------------------------------------
(* Claims.                                                                 *)

\* C1: parse_save_file always returns a ParseResult; on a fatal input
\* (missing or empty file, header that does not fit, header text that is not
\* UTF-8 or no JSON object, unsupported major version, whatever bytes follow)
\* the result has success = false, a non-empty error_message and no
\* save_game; and in every result success = true only with a save_game.
C1_FatalInputsFail ==
    Returned =>
        /\ DOMAIN result = DOMAIN ParseResult
        /\ result.success \in BOOLEAN
        /\ Fatal(call.file) =>
              /\ ~result.success
              /\ result.error_message # << >>
              /\ result.save_game = NoSaveGame
        /\ result.success => result.save_game # NoSaveGame

\* a header whose declared size runs past the end of the file was parsed
C1_Witness ==
    /\ Returned
    /\ call.file.exists
    /\ Len(call.file.data) >= 12
    /\ ~HeaderFits(call.file.data)
    /\ ~result.success
    /\ Contains(result.error_message, Txt.m_expected)

\* C2: a header whose saveMajorVersion is not 7 gives success = false and an
\* error_message that mentions the version, whatever the minor version and
\* the rest of the file; a header without saveMajorVersion is taken as major
\* 7: it is never rejected for its version, and it succeeds whenever its
\* minor version is a number or absent.
C2_MajorVersionGate ==
    (Returned /\ HeaderDecodes(call.file)) =>
        LET major == Member(call.file, Txt.saveMajorVersion)
            minor == Member(call.file, Txt.saveMinorVersion)
        IN  /\ major \notin { Absent, PyInt(SUPPORTED_MAJOR_VERSION) } =>
                  /\ ~result.success
                  /\ Contains(result.error_message, Txt.version)
            /\ major = Absent =>
                  /\ ~Contains(result.error_message, Txt.version)
                  /\ (minor = Absent \/ IsNumber(minor)) =>
                        /\ result.success
                        /\ result.save_game.version.major = PyInt(SUPPORTED_MAJOR_VERSION)

\* a header reporting a major version above 7 with a supported minor version
\* was rejected
C2_Witness ==
    /\ Returned
    /\ HeaderDecodes(call.file)
    /\ Member(call.file, Txt.saveMajorVersion) = PyInt(SUPPORTED_MAJOR_VERSION + 1)
    /\ Member(call.file, Txt.saveMinorVersion) = PyInt(MAX_MINOR_VERSION)
    /\ Contains(result.error_message, Txt.m_unsupported_major)

\* a warning of ParseResult.warnings that has "version" in its text
VersionWarnings == { i \in 1 .. Len(result.warnings) : Contains(result.warnings[i], Txt.version) }

\* C3: with major version 7 and a minor version outside [11,36] the parse
\* succeeds and ParseResult.warnings holds a warning containing "version";
\* with a minor version inside [11,36] there is no such warning.
C3_MinorVersionWarning ==
    (Returned /\ HeaderDecodes(call.file)
       /\ Member(call.file, Txt.saveMajorVersion) = PyInt(SUPPORTED_MAJOR_VERSION)
       /\ Member(call.file, Txt.saveMinorVersion).t = "int") =>
        LET minor == Member(call.file, Txt.saveMinorVersion).n
        IN  IF minor < MIN_MINOR_VERSION \/ minor > MAX_MINOR_VERSION
            THEN result.success /\ VersionWarnings # {}
            ELSE VersionWarnings = {}

\* a count of the header: an integer that is not negative
NonNegative(v) == v.t = "int" /\ v.n >= 0

\* what the header JSON's count stands for: itself when it is a non-negative
\* integer, 0 when it is missing, not a number or negative
CountOf(v) == IF NonNegative(v) THEN v ELSE PyInt(0)

\* C10: in the SaveGame of a successful parse, header.num_cycles and
\* header.num_duplicants are non-negative integers: the header JSON's
\* numberOfCycles / numberOfDuplicants when that is a non-negative integer,
\* 0 when it is missing, not a number or negative; clusterId is kept.
C10_NonNegativeCounts ==
    (Returned /\ result.success) =>
        LET header == result.save_game.header
        IN  /\ NonNegative(header.num_cycles)
            /\ NonNegative(header.num_duplicants)
            /\ header.num_cycles = CountOf(Member(call.file, Txt.numberOfCycles))
            /\ header.num_duplicants = CountOf(Member(call.file, Txt.numberOfDuplicants))
            /\ header.cluster_id = Member(call.file, Txt.clusterId)
-----------------------------------------------------------------------------
(* Claims on the decoded duplicants.                                       *)

Decoded == call.op \in { "DuplicantDecoder", "OniSaveParser" }

\* the resume of duplicant d names a role other than the default
ResumeRoleDecodable(d) == d.role \notin { NoBytes, Txt.NoRole }

\* the hat of duplicant d maps to a role
HatRoleDecodable(d) == d.hat # NoBytes /\ map_hat_to_role(d.hat) # << >>

\* C5: every decoded duplicant has a role string, raw (job) and canonical
\* (role), and the role is "NoRole" exactly when neither the currentRole of
\* its MinionResume nor a hat of its Accessorizer gave a role.
C5_NoRoleOnlyWithoutRole ==
    \A ds \in Colonies :
        (Decoded /\ save_body = MinionBody(ds)) =>
            /\ Len(result) = Len(ds)
            /\ \A i \in 1 .. Len(ds) :
                  /\ "job" \in DOMAIN result[i]
                  /\ result[i]["job"] # << >>
                  /\ _map_minion_entry(result[i]).role = result[i]["job"]
                  /\ (result[i]["job"] = Txt.NoRole)
                        <=> (~ResumeRoleDecodable(ds[i]) /\ ~HatRoleDecodable(ds[i]))

\* C6: every aptitude of a decoded duplicant is one of the 14 groups of
\* max_level at a level from 1 to the group's maximum.
C6_AptitudesWithinTable ==
    Decoded =>
        \A i \in 1 .. Len(result) :
            \A g \in DOMAIN Get(result[i], "aptitudes", << >>) :
                /\ g \in DOMAIN max_level
                /\ result[i]["aptitudes"][g] >= 1
                /\ result[i]["aptitudes"][g] <= max_level[g]

\* the known traits among those duplicant d holds, as the decoders list them
KnownTraits(d) ==
    IF d.traits = NoList THEN << >>
    ELSE sorted({ TraitAlias(t) : t \in Range(d.traits) } \cap FALLBACK_TRAIT_IDS)

KnownEffects(d) ==
    IF d.effects = NoList THEN << >>
    ELSE sorted(Range(d.effects) \cap FALLBACK_EFFECT_IDS)

\* C7: every decoded duplicant has a traits list and an effects list, empty
\* when nothing was decoded; every trait is of the known traits and every
\* effect of the known effects, the tokens of Klei.AI.Traits and
\* Klei.AI.Effects outside the allow-lists being dropped.
C7_TraitsAndEffectsKnown ==
    /\ Decoded =>
          \A i \in 1 .. Len(result) :
              /\ "traits" \in DOMAIN result[i]
              /\ "effects" \in DOMAIN result[i]
              /\ Range(result[i]["traits"]) \subseteq FALLBACK_TRAIT_IDS
              /\ Range(result[i]["effects"]) \subseteq FALLBACK_EFFECT_IDS
    /\ \A ds \in Colonies :
          (Decoded /\ save_body = MinionBody(ds)) =>
              /\ Len(result) = Len(ds)
              /\ \A i \in 1 .. Len(ds) :
                    /\ result[i]["traits"] = KnownTraits(ds[i])
                    /\ result[i]["effects"] = KnownEffects(ds[i])

\* a duplicant with a known trait, an unknown one and an alias, and no
\* effects block, was decoded
C7_Witness ==
    /\ call.op = "DuplicantDecoder"
    /\ save_body = MinionBody(<< [Duplicant EXCEPT
                                    !.traits = << Txt.Foodie, Txt.Zzz, Txt.DiversLung >>] >>)
    /\ Len(result) = 1
    /\ result[1]["traits"] = << Txt.DeeperDiversLungs, Txt.Foodie >>
    /\ result[1]["effects"] = << >>


\* C22: the role of a decoded duplicant whose MinionResume holds a
\* currentRole and whose Accessorizer holds a hat that maps to a role is the
\* currentRole, whichever of the two blocks comes first; the role of the hat
\* is given only when the resume gave none.
C22_StructuredRoleFirst ==
    \A ds \in Colonies :
        (Decoded /\ save_body = MinionBody(ds)) =>
            /\ Len(result) = Len(ds)
            /\ \A i \in 1 .. Len(ds) :
                  (ResumeRoleDecodable(ds[i]) /\ HatRoleDecodable(ds[i]))
                      => result[i]["job"] = ds[i].role

\* the aptitudes the structured pass reads in the resume of duplicant d, and
\* those the scan of the resume's text for <Group><digits> tokens finds
StructuredAptitudes(d) ==
    _parse_minion_resume(ResumePayload(d), 0, Len(ResumePayload(d))).aptitudes

ScannedAptitudes(d) == WordTokens(DecodeIgnore(ResumePayload(d)), 1, << >>)

HasResume(d) == d.role # NoBytes \/ d.apts # << >> \/ d.note # NoBytes

\* C23: the aptitudes of a decoded duplicant are those of the structured
\* AptitudeBySkillGroup pass when it yields any, and otherwise those the
\* scan of the resume's text finds (canonical group, level within range): a
\* resume whose text holds Building3 and no aptitude array gives Building 3.
C23_AptitudeScanFallback ==
    \A ds \in Colonies :
        (Decoded /\ save_body = MinionBody(ds)) =>
            /\ Len(result) = Len(ds)
            /\ \A i \in 1 .. Len(ds) :
                  HasResume(ds[i]) =>
                      Get(result[i], "aptitudes", << >>)
                          = IF DOMAIN StructuredAptitudes(ds[i]) # {}
                            THEN StructuredAptitudes(ds[i])
                            ELSE ScannedAptitudes(ds[i])

\* the resume whose text holds Building3 gives, after the scan, Building 3
BuildingScanned ==
    ScannedAptitudes([Duplicant EXCEPT !.note = Txt.Building3]) = (Txt.Building :> 3)

\* the offsets of a payload at which four bytes are a finite float32 within
\* the range (words of not-a-number and of the infinities lie above the word
\* of every vmax and of every |vmin|)
InRangeAt(payload, range) ==
    { p \in 0 .. Len(payload) - 4 : InRange(I32(payload, p), range) }

Last(S) == CHOOSE p \in S : \A o \in S : o <= p

\* the vitals of entry e are those of the modifiers (label, payload)
VitalsAsStated(modifiers, e) ==
    /\ \A i \in 1 .. Len(modifiers) :
          modifiers[i][1] \in DOMAIN label_map =>
              IF InRangeAt(modifiers[i][2], label_map[modifiers[i][1]]) = {}
              THEN label_map[modifiers[i][1]].key \notin DOMAIN Get(e, "vitals", << >>)
              ELSE /\ label_map[modifiers[i][1]].key \in DOMAIN Get(e, "vitals", << >>)
                   /\ e["vitals"][label_map[modifiers[i][1]].key]
                        = I32(modifiers[i][2],
                              Last(InRangeAt(modifiers[i][2], label_map[modifiers[i][1]])))
    /\ \A k \in DOMAIN Get(e, "vitals", << >>) :
          \E i \in 1 .. Len(modifiers) :
              /\ modifiers[i][1] \in DOMAIN label_map
              /\ label_map[modifiers[i][1]].key = k
              /\ InRange(e["vitals"][k], label_map[modifiers[i][1]])

SameEntries(a, b) ==
    /\ Len(a) = Len(b)
    /\ \A i \in 1 .. Len(a) :
          /\ DOMAIN a[i] = DOMAIN b[i]
          /\ \A k \in DOMAIN a[i] : a[i][k] = b[i][k]

\* C28: on the same body the decoder module and the inline decoder of the
\* parser return the same list of duplicant entries.
C28_DecodersEquivalent ==
    Decoded => SameEntries(extract_minion_details_from_body(save_body),
                           _extract_minion_details_from_body(save_body))
-----------------------------------------------------------------------------
(* Claims about the framing of the decoder's walk (SpecFrame).              *)

Walked == call.op = "walk"

\* the groups the walk decoded, the groups it skipped, the blocks
DecodedGroups ==
    { i \in 1 .. Len(result.seen) :
          /\ result.seen[i].kind = "group"
          /\ result.seen[i].name = Txt.Minion /\ result.seen[i].count > 0 }
SkippedGroups ==
    { i \in 1 .. Len(result.seen) : result.seen[i].kind = "group" } \ DecodedGroups
SeenBlocks == { i \in 1 .. Len(result.seen) : result.seen[i].kind = "block" }

\* C29: after a Minion group is processed, the next group header is read at
\* the group's data start + data_length
C29_MinionGroupFramed ==
    Walked => \A i \in DecodedGroups :
                  result.seen[i].next = result.seen[i].start + result.seen[i].len

\* C25 as stated: after a block the walk resumes at payload start +
\* payload_len, and a group that is not decoded is left at data start +
\* data_length
C25_FramedByLength ==
    Walked =>
        /\ \A i \in SeenBlocks :
              result.seen[i].next = result.seen[i].start + result.seen[i].len
        /\ \A i \in SkippedGroups :
              result.seen[i].next = result.seen[i].start + result.seen[i].len

\* C25: after every block, recognized or not, decoded or not, the walk
\* resumes at payload start + max(0, payload_len); a group that is not
\* decoded is left at data start + max(0, data_length) and nothing of it is
\* decoded: what the walk framed just before it is the group before it
C25_FramedByClampedLength ==
    Walked =>
        /\ \A i \in SeenBlocks :
              result.seen[i].next = result.seen[i].start + Max(0, result.seen[i].len)
        /\ \A i \in SkippedGroups :
              /\ result.seen[i].next = result.seen[i].start + Max(0, result.seen[i].len)
              /\ i = 1 \/ result.seen[i - 1].kind = "group"

\* a walk that skipped a block it does not know, a block with a negative
\* length and a group of tiles
C25_Witness ==
    /\ Walked
    /\ \E i \in SeenBlocks : result.seen[i].name = Txt.Tile /\ result.seen[i].len = 3
    /\ \E i \in SeenBlocks : result.seen[i].len < 0
    /\ \E i \in SkippedGroups : result.seen[i].name = Txt.Tile /\ result.seen[i].len = 2

\* b with every byte outside [lo, hi) changed
Outside(b, lo, hi) == [i \in 1 .. Len(b) |-> IF i > lo /\ i <= hi THEN b[i] ELSE 255 - b[i]]

\* the keys every entry of the list holds
EntryKeys == { "x", "y", "z", "arrival_time", "job", "traits", "effects" }

C21_CutShort ==
    /\ Walked
    /\ Len(save_body) < Len(FrameBase)
    /\ Len(result.minions) = 1
    /\ SeenBlocks # { }

-----------------------------------------------------------------------------
(* Claims on the entities of a parse and on the section documents.         *)

\* the body of file f, << >> when it has none
BodyOf(f) == _decompress_body_block(f.data).body

\* C4: for a valid save of major version 7 whose body holds a KSAV group
\* table with at least one group, parse_save_file succeeds and the entities
\* hold under "object_group_counts" the non-empty map from group name to
\* instance count.
C4_ObjectGroupCounts ==
    (/\ Returned
     /\ ~Fatal(call.file)
     /\ Member(call.file, Txt.saveMajorVersion) = PyInt(SUPPORTED_MAJOR_VERSION)
     /\ DOMAIN extract_object_group_counts(BodyOf(call.file)) # {})
        => /\ result.success
           /\ "object_group_counts" \in DOMAIN result.entities
           /\ result.entities["object_group_counts"]
                 = extract_object_group_counts(BodyOf(call.file))

SectionKeys == { "metadata", "duplicants", "world_grid_summary", "object_group_counts" }
MetadataKeys == { "version", "cycles", "duplicant_count", "base_name", "cluster_id", "game_info" }
SummaryKeys == { "width", "height", "cell_count", "histograms", "breathable_percent", "warnings" }

\* C8: for any SaveGame and any entities, extract returns a document of
\* exactly the four sections, metadata, duplicants and world_grid_summary
\* with their keys, every key at its empty default when the source has
\* nothing for it, and cell_count = width * height when both are positive
\* and 0 otherwise.
C8_DocumentComplete ==
    call.op = "extract" =>
        /\ result.ok
        /\ DOMAIN result.doc = SectionKeys
        /\ DOMAIN result.doc.metadata = MetadataKeys
        /\ DOMAIN result.doc.duplicants = { "count", "list" }
        /\ SummaryKeys \subseteq DOMAIN result.doc.world_grid_summary
        /\ "duplicants" \notin DOMAIN call.entities => result.doc.duplicants.list = << >>
        /\ "object_group_counts" \notin DOMAIN call.entities
              => result.doc.object_group_counts = << >>
        /\ call.save.header.game_info = << >>
              => result.doc.metadata.base_name = PyStr(<< >>)
        /\ "world_grid_summary" \notin DOMAIN call.entities
              => /\ result.doc.world_grid_summary["breathable_percent"] = PyNone
                 /\ result.doc.world_grid_summary["warnings"] = << >>
        /\ result.doc.world_grid_summary["cell_count"]
              = CellCount(result.doc.world_grid_summary["width"],
                          result.doc.world_grid_summary["height"])

\* C9: in the duplicants section of a successfully parsed save, as the
\* command line and the section wrapper give it, count is the number of
\* entries of list.
C9_CountIsListLength ==
    /\ (call.op = "parse_save" /\ result.ok)
          => result.doc.duplicants.count = Len(result.doc.duplicants.list)
    /\ (call.op = "sections" /\ result.ok)
          => result.sections.duplicants.count
                = PyInt(Len(result.sections.duplicants.list))


\* the summary dict the caller handed over, when it handed one
CallerSummary(entities) ==
    IF "world_grid_summary" \in DOMAIN entities /\ IsDict(entities["world_grid_summary"])
    THEN entities["world_grid_summary"] ELSE << >>

\* C27: extract leaves the entities it was given as they were, a summary
\* dict of the caller included, and a second call on the same arguments
\* returns the same document.
C27_ExtractIsPure ==
    (call.op = "extract" /\ result.ok) =>
        /\ DOMAIN call.left = DOMAIN call.entities
        /\ DOMAIN CallerSummary(call.left) = DOMAIN CallerSummary(call.entities)
        /\ extract(call.save, call.left).ok
        /\ DOMAIN extract(call.save, call.left).doc = DOMAIN result.doc
        /\ extract(call.save, call.left).doc.world_grid_summary
              = result.doc.world_grid_summary
-----------------------------------------------------------------------------
(* Claims about the loops of the decoder (SpecLoop).                        *)

\* a step of a running loop
Iteration == call.op # "none" /\ call.live /\ call'.op = call.op

\* C26: every iteration of a loop either leaves the loop or strictly
\* advances the cursor; while the loop runs the cursor does not pass the end
\* of its block, and the iterations completed are no more than the bytes of
\* the block
C26_LoopsAdvance ==
    [][Iteration =>
          /\ ~call'.live \/ call'.q > call.q
          /\ call'.live => call'.q <= call.end
          /\ call'.n <= call.end - call.start]_vars

\* a scan over a block that holds no length that fits, left after an
\* iteration at each of its bytes
C26_Witness ==
    /\ call.op = "strings"
    /\ ~call.live
    /\ call.n > 10
    /\ call.q + 4 > call.end

-----------------------------------------------------------------------------
(* Claims on the scanner and the metadata builder.                         *)

\* the offsets of buffer data, from offset from on, where a signature starts
\* and the stream inflates to bytes that hold the marker
KsavStreams(data, from) ==
    { pos \in from .. (Len(data) - 2) :
          /\ Slice(data, pos, pos + 2) \in ZlibSignatures
          /\ zlib_decompress(Slice(data, pos, Len(data))).ok
          /\ Contains(zlib_decompress(Slice(data, pos, Len(data))).out, Txt.KSAV) }

\* the end of the header JSON as the first words of the buffer give it
HeaderEnd(data) == 12 + (IF U32(data, 8) >= 1 THEN 4 ELSE 0) + U32(data, 4)

\* the header fields are consistent with the length of the buffer
HeaderConsistent(data) == Len(data) >= 12 /\ HeaderEnd(data) <= Len(data)

\* where the scan starts: after the header JSON, at 0 without such a header
ScanStart(data) == IF HeaderConsistent(data) THEN HeaderEnd(data) ELSE 0

\* C11: decompress_body_block raises no exception on any buffer, and it
\* returns None when no candidate position inflates to bytes holding "KSAV",
\* as when the buffer holds no signature at all.
C11_ScannerNeverRaises ==
    call.op = "decompress_body_block" =>
        /\ ~result.raised
        /\ KsavStreams(call.file.data, ScanStart(call.file.data)) = {} => ~result.found

\* a buffer with signatures where the scan looks, every stream corrupt or
\* without the marker, gave None
C11_Witness ==
    /\ call.op = "decompress_body_block"
    /\ Candidates(call.file.data, ScanStart(call.file.data)) # {}
    /\ ~result.raised /\ ~result.found

\* C12: with header fields consistent with the file length the result is
\* the inflated stream of the lowest offset at or after the end of the
\* header JSON where a signature starts, the stream inflates and the output
\* holds "KSAV"; no offset inside the header region is selected.
C12_LowestOffsetAfterHeader ==
    (call.op = "decompress_body_block" /\ HeaderConsistent(call.file.data)) =>
        IF KsavStreams(call.file.data, HeaderEnd(call.file.data)) = {}
        THEN ~result.found
        ELSE /\ result.found
             /\ \E pos \in KsavStreams(call.file.data, HeaderEnd(call.file.data)) :
                   /\ \A q \in KsavStreams(call.file.data, HeaderEnd(call.file.data)) : pos <= q
                   /\ result.body
                         = zlib_decompress(Slice(call.file.data, pos, Len(call.file.data))).out

\* the header region holds a stream with the marker, a candidate after the
\* header was skipped, and the body is the one of a later stream
C12_Witness ==
    /\ call.op = "decompress_body_block"
    /\ HeaderConsistent(call.file.data)
    /\ KsavStreams(call.file.data, 0) \ KsavStreams(call.file.data, HeaderEnd(call.file.data)) # {}
    /\ \E pos \in Candidates(call.file.data, HeaderEnd(call.file.data)) :
          /\ pos \notin KsavStreams(call.file.data, 0)
          /\ \E q \in KsavStreams(call.file.data, pos) : TRUE
    /\ result.found /\ result.body = TwoGroupBody


\* the offsets anywhere in the buffer where a signature starts and the
\* stream from there to the end of the buffer inflates
InflatingAnywhere(data) ==
    { pos \in 0 .. (Len(data) - 2) :
          /\ Slice(data, pos, pos + 2) \in ZlibSignatures
          /\ zlib_decompress(Slice(data, pos, Len(data))).ok }

\* C15: build scans the whole file: metadata.blocks holds one SaveBlockInfo
\* for every offset of the file, the header region included, where a zlib
\* signature starts and the stream inflates, none for any other offset, no
\* offset twice, and compressed_size is the file length minus the offset.
C15_BlocksOfEntireFile ==
    (call.op = "build" /\ ~result.raised) =>
        /\ { result.blocks[i].offset : i \in DOMAIN result.blocks }
              = InflatingAnywhere(call.file.data)
        /\ \A i, j \in DOMAIN result.blocks :
              result.blocks[i].offset = result.blocks[j].offset => i = j
        /\ \A i \in DOMAIN result.blocks :
              result.blocks[i].compressed_size
                  = Len(call.file.data) - result.blocks[i].offset
-----------------------------------------------------------------------------
(* Claims on the group walks.                                              *)

\* the group at offset p of the body is whole: its lengths are not negative
\* and its name, its two counts and its data lie within the body
GroupSound(body, p) ==
    /\ p + 4 <= Len(body)
    /\ I32(body, p) >= 0
    /\ p + 4 + I32(body, p) + 8 <= Len(body)
    /\ I32(body, p + 4 + I32(body, p) + 4) >= 0
    /\ p + 4 + I32(body, p) + 8 + I32(body, p + 4 + I32(body, p) + 4) <= Len(body)

\* the name and the instance count of the group at p can be read
GroupReadable(body, p) ==
    /\ p + 4 <= Len(body)
    /\ I32(body, p) >= 0
    /\ p + 4 + I32(body, p) + 8 <= Len(body)

GroupName(body, p) == DecodeIgnore(Slice(body, p + 4, p + 4 + I32(body, p)))
GroupInstances(body, p) == I32(body, p + 4 + I32(body, p))
GroupEnd(body, p) == p + 4 + I32(body, p) + 8 + I32(body, p + 4 + I32(body, p) + 4)

\* the groups up to the first one that is not whole, of left announced: the
\* (name, instance count) pairs walked, and the offset and the number of
\* groups left where the walk stops
RECURSIVE WalkedGroups(_, _, _, _)
WalkedGroups(body, left, p, walked) ==
    IF left <= 0 \/ ~GroupSound(body, p)
    THEN [walked |-> walked, stop |-> p, left |-> left]
    ELSE WalkedGroups(body, left - 1, GroupEnd(body, p),
                      Append(walked, << GroupName(body, p), GroupInstances(body, p) >>))

\* the walk of a body; nothing without the marker and the three words
WalkOf(body) ==
    IF Find(body, Txt.KSAV, 0) = -1 \/ Find(body, Txt.KSAV, 0) + 16 > Len(body)
    THEN [walked |-> << >>, stop |-> Len(body), left |-> 0]
    ELSE WalkedGroups(body, I32(body, Find(body, Txt.KSAV, 0) + 12),
                      Find(body, Txt.KSAV, 0) + 16, << >>)

\* the per-name map and the sum of the pairs
RECURSIVE CountMap(_)
CountMap(pairs) ==
    IF pairs = << >> THEN << >>
    ELSE (pairs[Len(pairs)][1] :> pairs[Len(pairs)][2])
           @@ CountMap(SubSeq(pairs, 1, Len(pairs) - 1))

RECURSIVE CountSum(_)
CountSum(pairs) == IF pairs = << >> THEN 0 ELSE Head(pairs)[2] + CountSum(Tail(pairs))

\* the walks a result may show: the groups before the one that stops the
\* walk, with or without that group itself when it can be read
WalksAllowed(body) ==
    { WalkOf(body).walked }
      \cup (IF WalkOf(body).left > 0 /\ GroupReadable(body, WalkOf(body).stop)
            THEN { Append(WalkOf(body).walked,
                          << GroupName(body, WalkOf(body).stop),
                             GroupInstances(body, WalkOf(body).stop) >>) }
            ELSE {})

\* C13: on any body neither group walk raises, and the walk stops at the
\* first group whose name_len or data_length is negative or overruns the
\* body: the groups before it are in the result, and no group after it adds
\* to the per-name map or to total_instances.
C13_WalkStopsAtBadGroup ==
    /\ call.op = "extract_object_group_counts" =>
          /\ ~result.raised
          /\ result.counts \in { CountMap(w) : w \in WalksAllowed(save_body) }
    /\ call.op = "summarize" =>
          /\ ~result.raised
          /\ result.total_instances \in { CountSum(w) : w \in WalksAllowed(save_body) }

\* the body that ends after a group count of 1, and a body without marker
Truncated(body) ==
    \/ /\ Len(body) = 16
       /\ SubSeq(body, 1, 4) = Txt.KSAV
       /\ I32(body, 12) = 1
    \/ ~Contains(body, Txt.KSAV)

\* C14: for the body "KSAV", major, minor, group_count 1 and nothing more,
\* and for a body without the marker, no walk raises, the per-name map is
\* empty and the summary is group_count 0 and total_instances 0.
C14_TruncatedBodyIsEmpty ==
    Truncated(save_body) =>
        /\ call.op = "extract_object_group_counts" =>
              ~result.raised /\ result.counts = << >>
        /\ call.op = "summarize" =>
              /\ ~result.raised
              /\ result.group_count = 0
              /\ result.total_instances = 0

-----------------------------------------------------------------------------
(* Claims on repeated and on interleaved parses.                           *)

\* what the determinism is stated of: the outcome, the cycles, the
\* duplicant count, the group counts and the decoded duplicants
Determined(r) ==
    [success |-> r.success,
     error_message |-> r.error_message,
     cycles |-> IF r.success THEN r.save_game.header.num_cycles ELSE PyNone,
     duplicant_count |-> IF r.success THEN r.save_game.header.num_duplicants ELSE PyNone,
     object_group_counts |-> GroupCountsOf(r.entities),
     duplicants |-> Get(r.entities, "duplicants", << >>)]

\* the result of the call on a parser that parsed nothing before
ParsedAlone(f) == parse_save_file(f, NoGameInfo).result

\* C16: parsing the same bytes twice, on the same parser or on a new one,
\* whatever other files the parser parsed before, gives the same cycles,
\* duplicant count, object group counts and decoded duplicants.
C16_SameBytesSameResult ==
    \A t \in Tasks :
        call[t].stage = "done" =>
            /\ Determined(result[t]) = Determined(ParsedAlone(call[t].file))
            /\ \A u \in Tasks :
                  (call[u].stage = "done" /\ call[u].file = call[t].file)
                      => Determined(result[u]) = Determined(result[t])

\* the same save was parsed twice with success and decoded duplicants, and
\* the parser held another game info at one parse than at the other: the
\* worlds differ
C16_Witness ==
    /\ call[1].stage = "done" /\ call[2].stage = "done"
    /\ call[1].file = call[2].file
    /\ result[1].success /\ result[2].success
    /\ Get(result[1].entities, "duplicants", << >>) # << >>
    /\ result[1].save_game.world # result[2].save_game.world

\* C17: a parse is independent of every other parse: when the parses of two
\* files are interleaved on one parser, each result, the width and height of
\* the world among it, is the result of parsing the file alone.
C17_InterleavedParsesIndependent ==
    \A t \in Tasks :
        call[t].stage = "done" => result[t] = ParsedAlone(call[t].file)

\* the saves whose first resume holds an aptitude: the inline decoder reads
\* it before map_group is bound, and the UnboundLocalError is swallowed
ApprenticeFiles ==
    { SaveFile(1, Len(text), text, zlib_compress(MinionBody(<< Apprentice, Apprentice >>))) :
          text \in SharedTexts }

\* the warnings the sections give on every parse, whatever is decoded
SectionWarnings ==
    { Txt.m_templates_minimal, Txt.m_world_preserved, Txt.m_settings, Txt.m_sim,
      Txt.m_game_objects, Txt.m_game_data }

\* C20: a decode failure of one field or behaviour during a parse is
\* recovered from and is visible: the default stands in (the aptitudes are
\* unset), the behaviours and instances after it are decoded, and a warning
\* that describes the failure is appended to ParseResult.warnings.
C20_DecodeFailureWarned ==
    \A t \in Tasks :
        (call[t].stage = "done" /\ call[t].file.data \in ApprenticeFiles) =>
            /\ result[t].success
            /\ Len(result[t].entities["duplicants"]) = 2
            /\ "aptitudes" \notin DOMAIN result[t].entities["duplicants"][1]
            /\ result[t].entities["duplicants"][1]["job"] = Txt.Miner
            /\ "aptitudes" \in DOMAIN result[t].entities["duplicants"][2]
            /\ \E i \in DOMAIN result[t].warnings :
                  result[t].warnings[i] \notin SectionWarnings

\* the failure is recovered from, as the claim has it, and nothing but the
\* warnings of the sections is in ParseResult.warnings
DecodeFailureRecovered ==
    \A t \in Tasks :
        (call[t].stage = "done" /\ call[t].file.data \in ApprenticeFiles) =>
            /\ result[t].success
            /\ Len(result[t].entities["duplicants"]) = 2
            /\ "aptitudes" \notin DOMAIN result[t].entities["duplicants"][1]
            /\ "aptitudes" \in DOMAIN result[t].entities["duplicants"][2]
            /\ \A i \in DOMAIN result[t].warnings :
                  result[t].warnings[i] \in SectionWarnings
-----------------------------------------------------------------------------
(* Claims on the BinaryReader.                                             *)

\* the number of bytes from the stream position to the end of the data, none
\* when the position is past the end
BytesLeft(rd) == Max(0, Len(rd.data) - rd.pos)

\* a read of n bytes on reader rd gave r as the claim has it: an EOFError and
\* no data when fewer than n bytes are left, the n bytes at the position and
\* both positions moved on by n otherwise
ReadAsStated(rd, n, r) ==
    IF BytesLeft(rd) < n
    THEN /\ ~r.ok
         /\ r.bytes = << >>
         /\ r.err = EofMessage(n, BytesLeft(rd))
    ELSE /\ r.ok
         /\ r.bytes = SubSeq(rd.data, rd.pos + 1, rd.pos + n)
         /\ r.rd.pos = rd.pos + n
         /\ r.rd.position = rd.position + n
         /\ r.rd.pos <= Len(rd.data) \/ n = 0

\* read_string on reader rd gave r as the claim has it for the length
\* prefix and for the body of the length the prefix holds
StringAsStated(rd, r) ==
    IF BytesLeft(rd) < 4
    THEN ~r.ok /\ r.exc = "EOFError" /\ r.s = << >>
    ELSE IF I32(rd.data, rd.pos) <= 0
    THEN /\ r.ok = (I32(rd.data, rd.pos) = 0)
         /\ r.s = << >>
         /\ r.rd.pos = rd.pos + 4 /\ r.rd.position = rd.position + 4
    ELSE IF BytesLeft(rd) - 4 < I32(rd.data, rd.pos)
    THEN ~r.ok /\ r.exc = "EOFError" /\ r.s = << >>
    ELSE /\ r.rd.pos = rd.pos + 4 + I32(rd.data, rd.pos)
         /\ r.rd.position = rd.position + 4 + I32(rd.data, rd.pos)
         /\ r.rd.pos <= Len(rd.data)
         /\ r.ok => r.s = SubSeq(rd.data, rd.pos + 5, rd.pos + 4 + I32(rd.data, rd.pos))
         /\ ~r.ok => r.exc = "UnicodeDecodeError" /\ r.s = << >>

\* C18: in every state of the reader a read of n bytes (the words of 1, 2,
\* 4 and 8 bytes, read_bytes, the length prefix and the body of read_string)
\* fails with an EOFError and gives no data when fewer than n bytes are
\* left, and gives the n bytes at the position and moves the position on by
\* n otherwise; no read gives bytes from beyond the end of the data.
C18_ReadsStayInBounds ==
    /\ (call.op \in { "read_bytes", "read_word" } /\ call.count >= 0)
          => ReadAsStated(call.rd, call.count, result)
    /\ call.op = "read_string" => StringAsStated(call.rd, result)

\* a read that was cut short by the end of the data after the reader was
\* moved: it failed, and the reads before it gave data
C18_Witness ==
    /\ call.op = "read_bytes"
    /\ call.count > BytesLeft(call.rd) /\ BytesLeft(call.rd) > 0
    /\ call.rd.pos > 0
    /\ ~result.ok

\* the target of a skip or a seek
Target(c) == IF c.op = "skip_bytes" THEN c.rd.pos + c.count ELSE c.count

\* C19: skip_bytes and seek are validated: the position of the reader is
\* within 0 .. length after every call, and a skip or a seek to a target
\* outside of it is rejected with an error and moves nothing.
C19_SkipAndSeekValidated ==
    /\ result.rd.pos >= 0 /\ result.rd.pos <= Len(result.rd.data)
    /\ result.rd.position >= 0 /\ result.rd.position <= Len(result.rd.data)
    /\ (call.op \in { "skip_bytes", "seek" }
          /\ (Target(call) < 0 \/ Target(call) > Len(call.rd.data)))
          => (~result.ok /\ result.rd = call.rd)

\* C30: after every operation of the reader the tracked position is the
\* position of the stream, and an operation that failed has moved neither
C30_PositionIsStreamPosition ==
    /\ result.rd.position = get_position(result.rd)
    /\ ~result.ok => (result.rd.pos = call.rd.pos /\ result.rd.position = call.rd.position)
====
